---- MODULE Spec2Model ----
(***************************************************************************)
(* Batch parsing service (api-server/batch-parsing): the run of one batch  *)
(* as main() drives it -- connect_databases, parse_and_store, the per-row  *)
(* dual-store write of insert_record, update_batch_status, the temporary   *)
(* file of StorageClient and close_connections.                            *)
(*                                                                         *)
(* PostgreSQL is modelled as psycopg2 presents it: statements run inside   *)
(* one open transaction (pgPending) until pg_conn.commit() makes them      *)
(* durable (pgCommitted); a statement the server rejects leaves the        *)
(* transaction aborted, and every later statement fails until rollback().  *)
(* Cassandra has no transaction: an executed insert is visible at once.    *)
(*                                                                         *)
(* Faults are those of the error taxonomy: a database that cannot be       *)
(* connected, a download that fails, a file that yields no rows, and an    *)
(* exception while mapping or inserting one row.  A status update fails    *)
(* only as a consequence of these (an aborted transaction).                *)
(***************************************************************************)
EXTENDS Integers, Sequences, FiniteSets, TLC

VARIABLES
    pc,                 \* position of main() / parse_and_store()
    pg_conn,            \* "none" | "open" | "aborted" | "closed"
    cassandra_session,  \* "none" | "open" | "closed"
    batches,            \* the committed row of table batches for batch_id
    statusLog,          \* statuses recorded (committed) so far, in order
    pgPending,          \* batch_records rows inserted in the open transaction
    pgCommitted,        \* batch_records rows made durable by commit()
    casRows,            \* contact_records rows (visible as soon as executed)
    df_len,             \* len(df)
    idx,                \* row of df being processed, 1..df_len
    records_processed,  \* the running counter of parse_and_store
    batch_record_id,    \* uuid generated by the current insert_record call
    nextUuid,           \* source of fresh uuid4 values
    mapCalls,           \* number of map_row calls
    pgAttempts,         \* row -> number of narrow inserts executed for it
    casAttempts,        \* row -> number of wide-column inserts executed for it
    storage_mode,       \* "seaweedfs" | "local"
    local_file_path,    \* "None" | "tmp" | "abs"
    temp_files,         \* StorageClient.temp_files
    tempOnDisk,         \* the mkstemp file exists
    tempCreated,        \* mkstemp has created a file in this run
    cleanupCalls,       \* cleanup(local_file_path) calls made by parse_and_store
    releases,           \* removals of the temp file; who did each
    exc,                \* message of the exception in flight / last raised
    failKind,           \* which fault hit the run ("none" if none)
    failedRow,          \* row at which the first row-level failure occurred, 0 if none
    returned,           \* how parse_and_store ended: "no" | "value" | "exception"
    result,             \* the value parse_and_store returned
    output,             \* the JSON document main() prints
    exitCode,           \* process exit code, -1 while running
    fn,                 \* the function being called alone
    arg,                \* its arguments
    ret,                \* its return value
    done,               \* the call has returned
    locals              \* local variables of a function modelled step by step

vars == <<pc, pg_conn, cassandra_session, batches, statusLog, pgPending,
          pgCommitted, casRows, df_len, idx, records_processed,
          batch_record_id, nextUuid, mapCalls, pgAttempts, casAttempts,
          storage_mode, local_file_path, temp_files, tempOnDisk, tempCreated,
          cleanupCalls, releases, exc, failKind, failedRow, returned, result,
          output, exitCode, fn, arg, ret, done, locals>>

dbVars    == <<pg_conn, cassandra_session>>
batchVars == <<batches, statusLog>>
storeVars == <<pgPending, pgCommitted, casRows>>
rowVars   == <<df_len, idx, records_processed, batch_record_id, nextUuid,
               mapCalls, pgAttempts, casAttempts>>
fileVars  == <<storage_mode, local_file_path, temp_files, tempOnDisk,
               tempCreated, cleanupCalls, releases>>
failVars  == <<exc, failKind, failedRow>>
outVars   == <<returned, result, output, exitCode>>
callVars  == <<fn, arg, ret, done, locals>>
mainVars  == <<pc, dbVars, batchVars, storeVars, rowVars, fileVars, failVars,
               outVars>>

----------------------------------------------------------------------------
\* Bounds of the model.
MaxRows == 3            \* small files have 0..MaxRows rows
MaxCheckpoints == 2     \* large files have k*CommitEvery or k*CommitEvery+1 rows

\* "Commit every 100 records"
CommitEvery == 100

RowCounts ==
    (0..MaxRows) \cup
    { k * CommitEvery + d : k \in 1..MaxCheckpoints, d \in 0..1 }

Max(a, b) == IF a >= b THEN a ELSE b
MaxRowCount == Max(MaxRows, MaxCheckpoints * CommitEvery + 1)

Record(row, id) == [row |-> row, id |-> id]

RowsOf(store) == { r.row : r \in store }

----------------------------------------------------------------------------
\* The state before main() calls connect_databases: the batch row exists with
\* status CREATED and NULL (-1) counters, nothing is connected or stored.
BatchInit ==
    /\ pc = "connect"
    /\ pg_conn = "none"
    /\ cassandra_session = "none"
    /\ batches = [status |-> "CREATED", error_message |-> "None",
                  records_count |-> -1, records_processed |-> -1]
    /\ statusLog = <<>>
    /\ pgPending = {}
    /\ pgCommitted = {}
    /\ casRows = {}
    /\ df_len = 0
    /\ idx = 0
    /\ records_processed = 0
    /\ batch_record_id = 0
    /\ nextUuid = 1
    /\ mapCalls = 0
    /\ pgAttempts = << >>
    /\ casAttempts = << >>
    /\ storage_mode \in {"seaweedfs", "local"}
    /\ local_file_path = "None"
    /\ temp_files = {}
    /\ tempOnDisk = FALSE
    /\ tempCreated = FALSE
    /\ cleanupCalls = 0
    /\ releases = <<>>
    /\ exc = "None"
    /\ failKind = "none"
    /\ failedRow = 0
    /\ returned = "no"
    /\ result = [success |-> FALSE, error |-> "None"]
    /\ output = [success |-> FALSE, error |-> "None"]
    /\ exitCode = -1

\* No function is being called on its own during a run of main().
NoCall ==
    /\ fn = "none"
    /\ arg = <<>>
    /\ ret = <<>>
    /\ locals = <<>>
    /\ done = FALSE

Init == BatchInit /\ NoCall

----------------------------------------------------------------------------
\* connect_databases: PostgreSQL first, then Cassandra and its prepared
\* statement; any exception is logged and re-raised to main().
ConnectDatabases ==
    /\ pc = "connect"
    /\ UNCHANGED callVars
    /\ \E outcome \in {"ok", "pg_fail", "cassandra_fail"} :
         /\ pg_conn' = IF outcome = "pg_fail" THEN "none" ELSE "open"
         /\ cassandra_session' = IF outcome = "ok" THEN "open" ELSE "none"
         /\ exc' = IF outcome = "ok" THEN exc ELSE "connect_error"
         /\ failKind' = CASE outcome = "ok" -> failKind
                          [] outcome = "pg_fail" -> "connect_pg"
                          [] OTHER -> "connect_cassandra"
         /\ pc' = IF outcome = "ok" THEN "begin" ELSE "main_except"
    /\ UNCHANGED <<batchVars, storeVars, rowVars, fileVars, failedRow, outVars>>

CommitDropsPending(committed, pending) == committed

\* pg_conn.commit(): everything executed in the open transaction becomes durable.
Commit(committed, pending) == committed \cup pending

\* The row of table batches after the UPDATE statement of the given status.
UpdatedRow(status, error_message, count, processed) ==
    CASE status = "PARSING" -> [batches EXCEPT !.status = status]
      [] status = "PARSED"  -> [batches EXCEPT !.status = status,
                                               !.records_count = count,
                                               !.records_processed = processed]
      [] status = "ERROR"   -> [batches EXCEPT !.status = status,
                                               !.error_message = error_message]
      [] OTHER -> batches

\* cursor.execute inside update_batch_status raises when the transaction is
\* aborted (a previous statement failed on the server and was not rolled back).
UpdateRaises == pg_conn # "open"

\* update_batch_status: execute the UPDATE and commit; on any exception roll
\* the transaction back and re-raise.
UpdateBatchStatus(status, error_message, count, processed) ==
    IF UpdateRaises
    THEN /\ pgPending' = {}
         /\ pg_conn' = "open"
         /\ UNCHANGED <<batches, statusLog, pgCommitted>>
    ELSE /\ batches' = UpdatedRow(status, error_message, count, processed)
         /\ statusLog' = Append(statusLog, status)
         /\ pgCommitted' = Commit(pgCommitted, pgPending)
         /\ pgPending' = {}
         /\ pg_conn' = pg_conn

\* parse_and_store, line 378: self.update_batch_status('PARSING')
BeginParsing ==
    /\ pc = "begin"
    /\ UNCHANGED callVars
    /\ UpdateBatchStatus("PARSING", "None", -1, -1)
    /\ exc' = IF UpdateRaises THEN "status_update_error" ELSE exc
    /\ pc' = IF UpdateRaises THEN "fail" ELSE "download"
    /\ UNCHANGED <<cassandra_session, casRows, rowVars, fileVars, failKind,
                   failedRow, outVars>>

\* StorageClient.download: in seaweedfs mode mkstemp creates and tracks a temp
\* file, then download_file fills it; in local mode the path is checked.  The
\* assignment to local_file_path happens only when download returns.
Download ==
    /\ pc = "download"
    /\ UNCHANGED callVars
    /\ \E outcome \in IF storage_mode = "seaweedfs"
                      THEN {"ok", "mkstemp_fail", "download_fail"}
                      ELSE {"ok", "missing"} :
         /\ IF storage_mode = "seaweedfs" /\ outcome # "mkstemp_fail"
            THEN /\ temp_files' = temp_files \cup {"tmp"}
                 /\ tempOnDisk' = TRUE
                 /\ tempCreated' = TRUE
            ELSE UNCHANGED <<temp_files, tempOnDisk, tempCreated>>
         /\ local_file_path' =
              CASE outcome # "ok" -> local_file_path
                [] storage_mode = "seaweedfs" -> "tmp"
                [] OTHER -> "abs"
         /\ exc' = IF outcome = "ok" THEN exc ELSE "download_error"
         /\ failKind' = IF outcome = "ok" THEN failKind ELSE "download"
         /\ pc' = IF outcome = "ok" THEN "parse" ELSE "fail"
    /\ UNCHANGED <<dbVars, batchVars, storeVars, rowVars, storage_mode,
                   cleanupCalls, releases, failedRow, outVars>>

LoopNextOffByOne(i, n) == IF i < n THEN "map" ELSE "final_commit"

\* for idx, row in df.iterrows(): the next row, or the code after the loop.
LoopNext(i, n) == IF i <= n THEN "map" ELSE "final_commit"

DfEmptyUnchecked(n) == FALSE

\* if df.empty: raise ValueError("No data extracted from file")
DfEmpty(n) == n = 0

\* FileParser.parse_file and the emptiness check that follows it: an
\* unsupported extension and any parsing exception yield an empty DataFrame.
ParseFile ==
    /\ pc = "parse"
    /\ UNCHANGED callVars
    /\ \E outcome \in {"rows", "unsupported", "unreadable"} :
       \E n \in IF outcome = "rows" THEN RowCounts ELSE {0} :
         /\ df_len' = n
         /\ idx' = 1
         /\ pgAttempts' = [r \in 1..n |-> 0]
         /\ casAttempts' = [r \in 1..n |-> 0]
         /\ exc' = IF DfEmpty(n) THEN "No data extracted from file" ELSE exc
         /\ failKind' = CASE outcome # "rows" -> outcome
                          [] n = 0 -> "empty"
                          [] OTHER -> failKind
         /\ pc' = IF DfEmpty(n) THEN "fail" ELSE LoopNext(1, n)
    /\ UNCHANGED <<dbVars, batchVars, storeVars, records_processed,
                   batch_record_id, nextUuid, mapCalls, fileVars, failedRow,
                   outVars>>

OnRowFailureContinue(i, n) ==
    [pc |-> IF i + 1 <= n THEN "map" ELSE "final_commit", idx |-> i + 1]

\* except Exception as e: ... raise  (lines 410-414): the row's exception
\* leaves the loop; no later row is visited.
OnRowFailure(i, n) == [pc |-> "fail", idx |-> i]

\* str(e) of the exception a failing row step raises.
ErrorMessage(kind) ==
    CASE kind = "map" -> "map_error"
      [] kind = "pg"  -> "pg_insert_error"
      [] kind = "cas" -> "cas_insert_error"
      [] OTHER -> "None"

RowFails(kind) ==
    /\ exc' = ErrorMessage(kind)
    /\ failKind' = IF failedRow = 0 THEN kind ELSE failKind
    /\ failedRow' = IF failedRow = 0 THEN idx ELSE failedRow
    /\ pc' = OnRowFailure(idx, df_len).pc
    /\ idx' = OnRowFailure(idx, df_len).idx

\* map_row(row): builds the record, or raises.
MapRow ==
    /\ pc = "map"
    /\ UNCHANGED callVars
    /\ mapCalls' = mapCalls + 1
    /\ \/ /\ pc' = "pg_insert"
          /\ UNCHANGED <<idx, failVars>>
       \/ RowFails("map")
    /\ UNCHANGED <<dbVars, batchVars, storeVars, df_len, records_processed,
                   batch_record_id, nextUuid, pgAttempts, casAttempts,
                   fileVars, outVars>>

\* insert_record, lines 268-307: a fresh uuid4, then the INSERT INTO
\* batch_records inside the open transaction.  The statement can fail on the
\* server (the transaction is then aborted) or in the driver before it is sent
\* (the transaction is untouched); either way the exception is re-raised.
InsertNarrow ==
    /\ pc = "pg_insert"
    /\ UNCHANGED callVars
    /\ batch_record_id' = nextUuid
    /\ nextUuid' = nextUuid + 1
    /\ pgAttempts' = [pgAttempts EXCEPT ![idx] = @ + 1]
    /\ \/ /\ pgPending' = pgPending \cup {Record(idx, nextUuid)}
          /\ pc' = "cas_insert"
          /\ UNCHANGED <<pg_conn, idx, failVars>>
       \/ /\ \E outcome \in {"server_error", "client_error"} :
               pg_conn' = IF outcome = "server_error" THEN "aborted" ELSE pg_conn
          /\ RowFails("pg")
          /\ UNCHANGED pgPending
    /\ UNCHANGED <<cassandra_session, batchVars, pgCommitted, casRows, df_len,
                   records_processed, mapCalls, casAttempts, fileVars, outVars>>

CassandraKeyRegenerated(id) == id + 1

\* cassandra_values[0] = uuid.UUID(batch_record_id)
CassandraKey(id) == id

\* insert_record, lines 309-366: the INSERT INTO contact_records, keyed by the
\* identifier generated above.
InsertWide ==
    /\ pc = "cas_insert"
    /\ UNCHANGED callVars
    /\ casAttempts' = [casAttempts EXCEPT ![idx] = @ + 1]
    /\ \/ /\ casRows' = casRows \cup {Record(idx, CassandraKey(batch_record_id))}
          /\ pc' = "count"
          /\ UNCHANGED <<idx, failVars>>
       \/ /\ RowFails("cas")
          /\ UNCHANGED casRows
    /\ UNCHANGED <<dbVars, batchVars, pgPending, pgCommitted, df_len,
                   records_processed, batch_record_id, nextUuid, mapCalls,
                   pgAttempts, fileVars, outVars>>

\* records_processed += 1
Increment(n) == n + 1

AtCheckpointAfter(n) == n % CommitEvery = 1

\* if records_processed % 100 == 0
AtCheckpoint(n) == n % CommitEvery = 0

\* Lines 404-408: count the row, commit PostgreSQL every 100 records, and go on
\* to the next row.
CountRow ==
    /\ pc = "count"
    /\ UNCHANGED callVars
    /\ records_processed' = Increment(records_processed)
    /\ IF AtCheckpoint(Increment(records_processed))
       THEN /\ pgCommitted' = Commit(pgCommitted, pgPending)
            /\ pgPending' = {}
       ELSE UNCHANGED <<pgCommitted, pgPending>>
    /\ idx' = idx + 1
    /\ pc' = LoopNext(idx + 1, df_len)
    /\ UNCHANGED <<dbVars, batchVars, casRows, df_len, batch_record_id,
                   nextUuid, mapCalls, pgAttempts, casAttempts, fileVars,
                   failVars, outVars>>

\* Line 417: the final commit after the loop.
FinalCommit ==
    /\ pc = "final_commit"
    /\ UNCHANGED callVars
    /\ pgCommitted' = Commit(pgCommitted, pgPending)
    /\ pgPending' = {}
    /\ pc' = "parsed"
    /\ UNCHANGED <<dbVars, batchVars, casRows, rowVars, fileVars, failVars,
                   outVars>>

RecordParsedThenRaises ==
    /\ pc = "parsed"
    /\ UNCHANGED callVars
    /\ UpdateBatchStatus("PARSED", "None", df_len, records_processed)
    /\ exc' = "result_error"
    /\ pc' = "fail"
    /\ UNCHANGED <<cassandra_session, casRows, rowVars, fileVars, failKind,
                   failedRow, outVars>>

\* Lines 420-431: update_batch_status('PARSED', len(df), records_processed)
\* and the success result.
RecordParsed ==
    /\ pc = "parsed"
    /\ UNCHANGED callVars
    /\ UpdateBatchStatus("PARSED", "None", df_len, records_processed)
    /\ IF UpdateRaises
       THEN /\ exc' = "status_update_error"
            /\ pc' = "fail"
            /\ UNCHANGED <<returned, result>>
       ELSE /\ returned' = "value"
            /\ result' = [success |-> TRUE, records_total |-> df_len,
                          records_processed |-> records_processed]
            /\ pc' = "finally"
            /\ UNCHANGED exc
    /\ UNCHANGED <<cassandra_session, casRows, rowVars, fileVars, failKind,
                   failedRow, output, exitCode>>

\* Lines 433-439: except Exception as e: update_batch_status('ERROR', str(e))
\* and the failure result.  When the update itself raises, the new exception
\* leaves parse_and_store.
HandleError ==
    /\ pc = "fail"
    /\ UNCHANGED callVars
    /\ UpdateBatchStatus("ERROR", exc, -1, -1)
    /\ IF UpdateRaises
       THEN /\ exc' = "status_update_error"
            /\ returned' = "exception"
            /\ UNCHANGED result
       ELSE /\ returned' = "value"
            /\ result' = [success |-> FALSE, error |-> exc]
            /\ UNCHANGED exc
    /\ pc' = "finally"
    /\ UNCHANGED <<cassandra_session, casRows, rowVars, fileVars, failKind,
                   failedRow, output, exitCode>>

\* StorageClient.cleanup(file_path) for a given path: only a tracked temp
\* file is removed and untracked.
CleanupTracked(path) == path # "None" /\ path \in temp_files

\* Lines 440-444: finally: if local_file_path: storage_client.cleanup(it)
Finally ==
    /\ pc = "finally"
    /\ UNCHANGED callVars
    /\ IF local_file_path # "None"
       THEN /\ cleanupCalls' = cleanupCalls + 1
            /\ IF CleanupTracked(local_file_path)
               THEN /\ temp_files' = temp_files \ {local_file_path}
                    /\ tempOnDisk' = FALSE
                    /\ releases' = IF tempOnDisk
                                   THEN Append(releases, "parse_and_store")
                                   ELSE releases
               ELSE UNCHANGED <<temp_files, tempOnDisk, releases>>
       ELSE UNCHANGED <<cleanupCalls, temp_files, tempOnDisk, releases>>
    /\ pc' = IF returned = "exception" THEN "main_except" ELSE "main_exit"
    /\ UNCHANGED <<dbVars, batchVars, storeVars, rowVars, storage_mode,
                   local_file_path, tempCreated, failVars, outVars>>

\* main, lines 488-494: print the result and exit 0 on success, 1 otherwise.
MainExit ==
    /\ pc = "main_exit"
    /\ UNCHANGED callVars
    /\ output' = result
    /\ exitCode' = IF result.success THEN 0 ELSE 1
    /\ pc' = "close"
    /\ UNCHANGED <<dbVars, batchVars, storeVars, rowVars, fileVars, failVars,
                   returned, result>>

\* main, lines 496-499: an exception that reached main().
MainExcept ==
    /\ pc = "main_except"
    /\ UNCHANGED callVars
    /\ output' = [success |-> FALSE, error |-> exc]
    /\ exitCode' = 1
    /\ pc' = "close"
    /\ UNCHANGED <<dbVars, batchVars, storeVars, rowVars, fileVars, failVars,
                   returned, result>>

\* close_connections: closing the PostgreSQL connection discards whatever the
\* open transaction still holds.
CloseConnections ==
    /\ pc = "close"
    /\ UNCHANGED callVars
    /\ pg_conn' = IF pg_conn = "none" THEN "none" ELSE "closed"
    /\ cassandra_session' = IF cassandra_session = "none" THEN "none" ELSE "closed"
    /\ pgPending' = {}
    /\ pc' = "done"
    /\ UNCHANGED <<batchVars, pgCommitted, casRows, rowVars, fileVars,
                   failVars, outVars>>

\* StorageClient.__del__: cleanup() of every temp file still tracked.
Del ==
    /\ pc = "done"
    /\ UNCHANGED callVars
    /\ temp_files' = {}
    /\ tempOnDisk' = IF temp_files # {} THEN FALSE ELSE tempOnDisk
    /\ releases' = IF temp_files # {} /\ tempOnDisk
                   THEN Append(releases, "__del__")
                   ELSE releases
    /\ pc' = "collected"
    /\ UNCHANGED <<dbVars, batchVars, storeVars, rowVars, storage_mode,
                   local_file_path, tempCreated, cleanupCalls, failVars,
                   outVars>>

Next ==
    \/ ConnectDatabases
    \/ BeginParsing
    \/ Download
    \/ ParseFile
    \/ MapRow
    \/ InsertNarrow
    \/ InsertWide
    \/ CountRow
    \/ FinalCommit
    \/ RecordParsed
    \/ HandleError
    \/ Finally
    \/ MainExit
    \/ MainExcept
    \/ CloseConnections
    \/ Del

Spec == Init /\ [][Next]_vars

\* The run is over: connections are closed and the exit code is set.
Terminal == pc \in {"done", "collected"}

TypeOK ==
    /\ pg_conn \in {"none", "open", "aborted", "closed"}
    /\ cassandra_session \in {"none", "open", "closed"}
    /\ batches.status \in {"CREATED", "PARSING", "PARSED", "ERROR"}
    /\ df_len \in RowCounts
    /\ idx \in 0..(MaxRowCount + 1)
    /\ records_processed \in 0..MaxRowCount
    /\ local_file_path \in {"None", "tmp", "abs"}
    /\ exitCode \in {-1, 0, 1}

----------------------------------------------------------------------------
\* Helpers of the properties.
Recorded(status) == \E i \in 1..Len(statusLog) : statusLog[i] = status

RowLevel == {"map", "pg", "cas"}
BatchFatal == {"download", "unsupported", "unreadable", "empty"}
ConnectFailure == {"connect_pg", "connect_cassandra"}

\* Row r is durable in the narrow store and present, under the same
\* identifier, in the wide-column store.
InBothStores(r) == \E rec \in pgCommitted : rec.row = r /\ rec \in casRows

\* parse_and_store has run to its end (its finally clause included).
Exited == returned # "no" /\ pc \in {"main_exit", "main_except", "close", "done", "collected"}

OrchestratorReleases ==
    Cardinality({ i \in 1..Len(releases) : releases[i] = "parse_and_store" })

----------------------------------------------------------------------------
\* C1 -- Batch abort: when the Cassandra insert of row K is the failure of the
\* run, PARSED is never recorded, and in the terminal state the status is
\* ERROR and rows 1..K-1 are committed in the narrow store and present in the
\* wide-column store.
C1_BatchAbort ==
    failKind = "cas" =>
        /\ ~Recorded("PARSED")
        /\ Terminal =>
             /\ batches.status = "ERROR"
             /\ \A r \in 1..(failedRow - 1) : InBothStores(r)

C1_Witness ==
    /\ Terminal
    /\ failKind = "cas"
    /\ failedRow = 3
    /\ batches.status = "ERROR"
    /\ InBothStores(2)

\* C2 -- Any row-level failure (mapping, narrow insert, wide insert) ends with
\* the batch status ERROR and the triggering error message recorded; the
\* batch does not stay in PARSING.
C2_RowFailureRecordsError ==
    (Terminal /\ failKind \in RowLevel) =>
        /\ batches.status = "ERROR"
        /\ batches.error_message = ErrorMessage(failKind)

\* C3 -- A failed row is neither retried nor skipped: after the first failure
\* at row K no insert is attempted for a row after K, and each of the two
\* inserts of row K is attempted at most once.
C3_NoRetryNoSkip ==
    failedRow # 0 =>
        \A r \in 1..df_len :
            /\ r > failedRow => pgAttempts[r] = 0 /\ casAttempts[r] = 0
            /\ r = failedRow => pgAttempts[r] <= 1 /\ casAttempts[r] <= 1

C3_Witness ==
    /\ Terminal
    /\ failKind = "cas"
    /\ failedRow = 2
    /\ df_len = 3
    /\ pgAttempts[2] = 1
    /\ casAttempts[2] = 1

\* C4 -- No compensating rollback: once the batch is terminal after a failure
\* at row K, every row before K is still in the narrow store (durably) and in
\* the wide-column store.
C4_NoRollback ==
    (Terminal /\ failedRow # 0) =>
        \A r \in 1..(failedRow - 1) :
            /\ r \in RowsOf(pgCommitted)
            /\ r \in RowsOf(casRows)

\* C5 -- Ordering of the dual-store write: every step that executes a
\* wide-column insert does so for a row whose narrow insert has already been
\* executed successfully, under the identifier that narrow insert generated,
\* and that identifier is used by no other row.
WideInsertStep ==
    \/ casRows' # casRows
    \/ /\ DOMAIN casAttempts' = DOMAIN casAttempts
       /\ casAttempts' # casAttempts

C5_NarrowBeforeFull ==
    [][ WideInsertStep =>
          \E r \in 1..df_len :
            /\ casAttempts' = [casAttempts EXCEPT ![r] = @ + 1]
            /\ pgAttempts[r] >= 1
            /\ Record(r, batch_record_id) \in pgPending
            /\ casRows' \subseteq casRows \cup {Record(r, batch_record_id)}
            /\ \A rec \in (pgPending \cup pgCommitted \cup casRows) :
                 rec.id = batch_record_id => rec.row = r
      ]_vars

C5_Witness ==
    /\ pc = "count"
    /\ idx = 2
    /\ Record(2, batch_record_id) \in pgPending
    /\ Record(2, batch_record_id) \in casRows

\* C6 -- The recorded status follows CREATED -> PARSING -> PARSED or
\* CREATED -> PARSING -> ERROR: PARSING is recorded once and before any row is
\* processed, and nothing is recorded after PARSED or ERROR.
C6_StatusPath ==
    /\ statusLog \in { <<>>, <<"PARSING">>, <<"PARSING", "PARSED">>,
                       <<"PARSING", "ERROR">> }
    /\ batches.status = IF statusLog = <<>> THEN "CREATED"
                        ELSE statusLog[Len(statusLog)]
    /\ mapCalls > 0 => Recorded("PARSING")

C6_Witness ==
    /\ Terminal
    /\ statusLog = <<"PARSING", "ERROR">>
    /\ mapCalls = 2

\* C7 -- When every row is processed without failure, PARSED is recorded with
\* records_count and records_processed both equal to the number of rows, and
\* the result is success with records_total = records_processed.
C7_SuccessCounts ==
    (Exited /\ failKind = "none") =>
        /\ batches.status = "PARSED"
        /\ batches.records_count = df_len
        /\ batches.records_processed = df_len
        /\ result.success
        /\ result.records_total = df_len
        /\ result.records_processed = result.records_total

C7_Witness ==
    /\ Terminal
    /\ failKind = "none"
    /\ batches.status = "PARSED"
    /\ df_len = CommitEvery + 1
    /\ exitCode = 0

\* C8 -- On every exit path of parse_and_store the temporary file obtained
\* from the storage client is released by parse_and_store exactly once.
C8_ReleasedOnce ==
    (Exited /\ tempCreated) => OrchestratorReleases = 1

\* C9 -- An unreadable or empty file, an unsupported extension and a download
\* failure take the batch from PARSING straight to ERROR: no row is mapped and
\* no insert is issued to either store.
C9_BatchFatal ==
    failKind \in BatchFatal =>
        /\ mapCalls = 0
        /\ \A r \in DOMAIN pgAttempts : pgAttempts[r] = 0 /\ casAttempts[r] = 0
        /\ pgPending = {} /\ pgCommitted = {} /\ casRows = {}
        /\ statusLog \in { <<"PARSING">>, <<"PARSING", "ERROR">> }
        /\ Exited => batches.status = "ERROR"

C9_Witness ==
    /\ Terminal
    /\ failKind = "unsupported"
    /\ statusLog = <<"PARSING", "ERROR">>
    /\ mapCalls = 0

\* C10 -- A database connection failure is recorded through the status
\* update: the batch status becomes ERROR, and the process exits with code 1.
C10_ConnectFailureRecorded ==
    (Terminal /\ failKind \in ConnectFailure) =>
        /\ batches.status = "ERROR"
        /\ exitCode = 1


----------------------------------------------------------------------------
(***************************************************************************)
(* Text.  A Python str is a sequence of characters; a character is a       *)
(* one-letter string, and an accented letter is written with its accent    *)
(* after it ("e'" is e-acute, "n~" is n-tilde) so that it stays one        *)
(* element of the sequence.                                                *)
(***************************************************************************)
LowerLetters ==
    <<"a", "b", "c", "d", "e", "f", "g", "h", "i", "j", "k", "l", "m", "n", "o", "p", "q", "r", "s", "t", "u", "v", "w", "x", "y", "z", "a'", "e'", "i'", "o'", "u'", "n~">>
UpperLetters ==
    <<"A", "B", "C", "D", "E", "F", "G", "H", "I", "J", "K", "L", "M", "N", "O", "P", "Q", "R", "S", "T", "U", "V", "W", "X", "Y", "Z", "A'", "E'", "I'", "O'", "U'", "N~">>

LowerSet == { LowerLetters[i] : i \in 1..Len(LowerLetters) }
UpperSet == { UpperLetters[i] : i \in 1..Len(UpperLetters) }
Digits == {"0", "1", "2", "3", "4", "5", "6", "7", "8", "9"}

IndexIn(c, letters) == CHOOSE i \in 1..Len(letters) : letters[i] = c

\* str.lower / str.upper on one character
Lower(c) == IF c \in UpperSet THEN LowerLetters[IndexIn(c, UpperLetters)] ELSE c
Upper(c) == IF c \in LowerSet THEN UpperLetters[IndexIn(c, LowerLetters)] ELSE c

IsCased(c) == c \in LowerSet \cup UpperSet
IsDigit(c) == c \in Digits
IsSpace(c) == c \in {" ", "\t"}

Accented   == <<"a'", "e'", "i'", "o'", "u'", "n~", "A'", "E'", "I'", "O'", "U'", "N~">>
Unaccented == <<"a", "e", "i", "o", "u", "n", "A", "E", "I", "O", "U", "N">>

\* unicodedata.normalize('NFD', c) without the combining marks (category Mn)
Unaccent(c) ==
    IF \E i \in 1..Len(Accented) : Accented[i] = c
    THEN Unaccented[IndexIn(c, Accented)]
    ELSE c

ToLower(s) == [i \in 1..Len(s) |-> Lower(s[i])]
ToUpper(s) == [i \in 1..Len(s) |-> Upper(s[i])]
StripAccents(s) == [i \in 1..Len(s) |-> Unaccent(s[i])]

\* str.isupper: at least one cased character and no lower-case one
IsUpper(s) ==
    /\ \E i \in 1..Len(s) : IsCased(s[i])
    /\ \A i \in 1..Len(s) : s[i] \notin LowerSet

\* str.capitalize: first character upper-cased, the rest lower-cased
Capitalize(s) == [i \in 1..Len(s) |-> IF i = 1 THEN Upper(s[i]) ELSE Lower(s[i])]

\* str.title: a cased character is upper-cased after an uncased one (or at the
\* start) and lower-cased after a cased one
Title(s) ==
    [i \in 1..Len(s) |->
        IF i = 1 \/ ~IsCased(s[i - 1]) THEN Upper(s[i]) ELSE Lower(s[i])]

RECURSIVE LStrip(_)
LStrip(s) == IF s # <<>> /\ IsSpace(Head(s)) THEN LStrip(Tail(s)) ELSE s

RECURSIVE RStrip(_)
RStrip(s) ==
    IF s # <<>> /\ IsSpace(s[Len(s)]) THEN RStrip(SubSeq(s, 1, Len(s) - 1)) ELSE s

\* str.strip()
Strip(s) == RStrip(LStrip(s))

RECURSIVE SplitFrom(_, _, _)
SplitFrom(s, i, word) ==
    IF i > Len(s)
    THEN IF word = <<>> THEN <<>> ELSE <<word>>
    ELSE IF IsSpace(s[i])
         THEN (IF word = <<>> THEN <<>> ELSE <<word>>) \o SplitFrom(s, i + 1, <<>>)
         ELSE SplitFrom(s, i + 1, Append(word, s[i]))

\* str.split(): the words between runs of whitespace
Split(s) == SplitFrom(s, 1, <<>>)

RECURSIVE Join(_, _)
\* sep.join(words)
Join(words, sep) ==
    IF words = <<>> THEN <<>>
    ELSE IF Len(words) = 1 THEN words[1]
    ELSE words[1] \o sep \o Join(Tail(words), sep)

StartsWith(s, p) == Len(s) >= Len(p) /\ SubSeq(s, 1, Len(p)) = p
EndsWith(s, p) == Len(s) >= Len(p) /\ SubSeq(s, Len(s) - Len(p) + 1, Len(s)) = p
MatchAt(s, i, p) == i + Len(p) - 1 <= Len(s) /\ SubSeq(s, i, i + Len(p) - 1) = p

\* p in s
Contains(s, p) == \E i \in 1..(Len(s) + 1) : MatchAt(s, i, p)

RECURSIVE ReplaceFrom(_, _, _, _)
ReplaceFrom(s, i, p, r) ==
    IF i > Len(s) THEN <<>>
    ELSE IF MatchAt(s, i, p) THEN r \o ReplaceFrom(s, i + Len(p), p, r)
    ELSE <<s[i]>> \o ReplaceFrom(s, i + 1, p, r)

\* s.replace(p, r) for a non-empty p
Replace(s, p, r) == ReplaceFrom(s, 1, p, r)

\* "".join(filter(str.isdigit, s))
DigitsOf(s) == SelectSeq(s, IsDigit)

\* The absent value None of a field or argument, distinct from every str.
None == <<"None">>


----------------------------------------------------------------------------
(***************************************************************************)
(* DataNormalizer.normalize_phone                                          *)
(***************************************************************************)
\* Python truthiness of an optional str argument
Truthy(x) == x # None /\ x # <<>>

NullLike == { <<"n", "a", "n">>, <<"n", "o", "n", "e">>, <<"n", "u", "l", "l">> }

IsExtensionBelowThree(digits) == Len(digits) < 3

\* if len(digits) <= 3
IsExtension(digits) == Len(digits) <= 3

\* Lines 228-231: the work prefix goes in front of exactly 4 digits
WithWorkPrefix(digits, phone_type, work_phone_prefix) ==
    IF phone_type = "work" /\ Len(digits) = 4 /\ Truthy(work_phone_prefix)
    THEN work_phone_prefix \o digits
    ELSE digits

FormatEightShort(digits, default_country_code) ==
    SubSeq(digits, 1, 1) \o <<"-">> \o SubSeq(digits, 2, 3)

\* Lines 239-245: "{cc} XXXX-XXXX" or "XXXX-XXXX"
FormatEight(digits, default_country_code) ==
    IF Truthy(default_country_code)
    THEN default_country_code \o <<" ">> \o SubSeq(digits, 1, 4) \o <<"-">>
         \o SubSeq(digits, 5, Len(digits))
    ELSE SubSeq(digits, 1, 4) \o <<"-">> \o SubSeq(digits, 5, Len(digits))

NormalizePhone(phone_raw, phone_type, work_phone_prefix, default_country_code) ==
    IF phone_raw = None \/ Strip(phone_raw) = <<>> THEN <<>>
    ELSE LET raw_str == Strip(phone_raw)
             digits  == DigitsOf(raw_str)
             prefixed == WithWorkPrefix(digits, phone_type, work_phone_prefix)
         IN  CASE ToLower(raw_str) \in NullLike -> <<>>
               [] StartsWith(raw_str, <<"+">>) -> raw_str
               [] IsExtension(digits) -> digits
               [] Len(prefixed) # 8 -> raw_str
               [] OTHER -> FormatEight(prefixed, default_country_code)

\* Bounds of the phone inputs.
MaxPhoneLen == 4        \* every string over PhoneAlphabet up to this length
MaxPhoneDigits == 9     \* digit runs of 0..MaxPhoneDigits digits

PhoneAlphabet == {"1", "x", " ", "+"}

Strings(alphabet, n) == UNION { [1..k -> alphabet] : k \in 0..n }

DigitCycle == <<"2", "2", "2", "2", "1", "2", "3", "4", "5", "6">>
DigitRun(n) == [i \in 1..n |-> DigitCycle[((i - 1) % Len(DigitCycle)) + 1]]

DigitRunInputs ==
    UNION { { DigitRun(n),
              <<" ">> \o DigitRun(n) \o <<" ">>,
              IF n > 4
              THEN SubSeq(DigitRun(n), 1, 4) \o <<"-">> \o SubSeq(DigitRun(n), 5, n)
              ELSE <<"(">> \o DigitRun(n) \o <<")">> } : n \in 0..MaxPhoneDigits }

PhoneExamples ==
    { <<"n", "a", "n">>, <<"N", "o", "n", "e">>, <<"N", "U", "L", "L">>, <<" ", "N", "u", "l", "l", " ">>, <<"+", "1", "-", "5", "5", "5", "-", "0", "1", "0", "0">>, <<" ", "+", "5", "0", "6", " ", "2", "2", "2", "2", " ">>, <<"e", "x", "t", ".", " ", "1", "2">>, <<"+", "(", "5", "0", "6", ")", " ", "2", "2", "2", "2", "-", "1", "2", "3", "4">> }

PhoneInputs == Strings(PhoneAlphabet, MaxPhoneLen) \cup DigitRunInputs \cup PhoneExamples

PhoneTypes == {"work", "mobile", "other"}
WorkPrefixes == { None, <<"2", "2", "2", "2">>, <<"2", "2">> }
CountryCodes == { None, <<"+", "(", "5", "0", "6", ")">>, <<" ", "+", "5", "0", "6">> }

PhoneArgs ==
    [phone_raw : PhoneInputs, phone_type : PhoneTypes,
     work_phone_prefix : WorkPrefixes, default_country_code : CountryCodes]

InitPhone ==
    /\ BatchInit
    /\ storage_mode = "seaweedfs"
    /\ fn = "normalize_phone"
    /\ arg \in PhoneArgs
    /\ ret = <<>>
    /\ locals = <<>>
    /\ done = FALSE

CallNormalizePhone ==
    /\ fn = "normalize_phone"
    /\ ~done
    /\ ret' = NormalizePhone(arg.phone_raw, arg.phone_type, arg.work_phone_prefix,
                             arg.default_country_code)
    /\ done' = TRUE
    /\ UNCHANGED <<fn, arg, locals, mainVars>>

\* normalize_phone called again on what it returned, with the same phone_type
\* and policy
CallNormalizePhoneAgain ==
    /\ fn = "normalize_phone"
    /\ done
    /\ locals = <<>>
    /\ locals' = [twice |-> NormalizePhone(ret, arg.phone_type, arg.work_phone_prefix,
                                           arg.default_country_code)]
    /\ UNCHANGED <<fn, arg, ret, done, mainVars>>

NextPhone == CallNormalizePhone \/ CallNormalizePhoneAgain

SpecPhone == InitPhone /\ [][NextPhone]_vars


----------------------------------------------------------------------------
\* The ordered rules of the phone normalizer as the specification words them,
\* with `unrecognized` the value returned for an unrecognized shape.
PhoneRules(a, unrecognized) ==
    LET trimmed == IF a.phone_raw = None THEN <<>> ELSE Strip(a.phone_raw)
        digits  == DigitsOf(trimmed)
        work4   == a.phone_type = "work" /\ Len(digits) = 4
                   /\ Truthy(a.work_phone_prefix)
        number  == IF work4 THEN a.work_phone_prefix \o digits ELSE digits
    IN  CASE trimmed = <<>> \/ ToLower(trimmed) \in NullLike -> <<>>
          [] trimmed[1] = "+" -> trimmed
          [] Len(digits) <= 3 -> digits
          [] Len(number) # 8 -> unrecognized
          [] Truthy(a.default_country_code) ->
                a.default_country_code \o <<" ">> \o SubSeq(number, 1, 4)
                \o <<"-">> \o SubSeq(number, 5, 8)
          [] OTHER -> SubSeq(number, 1, 4) \o <<"-">> \o SubSeq(number, 5, 8)

PhoneCalled == fn = "normalize_phone" /\ done

----------------------------------------------------------------------------
(***************************************************************************)
(* DataNormalizer.parse_name                                               *)
(***************************************************************************)
spanish_given_names ==
    {
      <<"j", "o", "s", "e">>,
      <<"m", "a", "r", "i", "a">>,
      <<"j", "u", "a", "n">>,
      <<"c", "a", "r", "l", "o", "s">>,
      <<"l", "u", "i", "s">>,
      <<"a", "n", "a">>,
      <<"p", "e", "d", "r", "o">>,
      <<"f", "r", "a", "n", "c", "i", "s", "c", "o">>,
      <<"m", "i", "g", "u", "e", "l">>,
      <<"a", "n", "t", "o", "n", "i", "o">>,
      <<"m", "a", "n", "u", "e", "l">>,
      <<"j", "e", "s", "u", "s">>,
      <<"r", "a", "u", "l">>,
      <<"e", "d", "u", "a", "r", "d", "o">>,
      <<"a", "l", "b", "e", "r", "t", "o">>,
      <<"j", "o", "r", "g", "e">>,
      <<"r", "o", "b", "e", "r", "t", "o">>,
      <<"r", "i", "c", "a", "r", "d", "o">>,
      <<"f", "e", "r", "n", "a", "n", "d", "o">>,
      <<"r", "a", "f", "a", "e", "l">>,
      <<"a", "n", "d", "r", "e", "s">>,
      <<"d", "i", "e", "g", "o">>,
      <<"d", "a", "n", "i", "e", "l">>,
      <<"a", "l", "e", "j", "a", "n", "d", "r", "o">>,
      <<"j", "a", "v", "i", "e", "r">>,
      <<"s", "e", "r", "g", "i", "o">>,
      <<"p", "a", "b", "l", "o">>,
      <<"e", "n", "r", "i", "q", "u", "e">>,
      <<"r", "a", "m", "o", "n">>,
      <<"s", "o", "f", "i", "a">>,
      <<"i", "s", "a", "b", "e", "l">>,
      <<"c", "a", "r", "m", "e", "n">>,
      <<"r", "o", "s", "a">>,
      <<"l", "a", "u", "r", "a">>,
      <<"p", "a", "t", "r", "i", "c", "i", "a">>,
      <<"m", "o", "n", "i", "c", "a">>,
      <<"a", "n", "d", "r", "e", "a">>,
      <<"c", "r", "i", "s", "t", "i", "n", "a">>,
      <<"e", "l", "e", "n", "a">>,
      <<"t", "e", "r", "e", "s", "a">>,
      <<"b", "e", "a", "t", "r", "i", "z">>,
      <<"s", "i", "l", "v", "i", "a">>,
      <<"m", "a", "r", "t", "a">>,
      <<"v", "a", "l", "e", "r", "i", "a">>,
      <<"g", "a", "b", "r", "i", "e", "l", "a">>,
      <<"c", "a", "r", "o", "l", "i", "n", "a">>,
      <<"p", "a", "u", "l", "a">>,
      <<"a", "d", "r", "i", "a", "n", "a">>,
      <<"n", "a", "t", "a", "l", "i", "a">>,
      <<"a", "l", "e", "x", "a", "n", "d", "e", "r">>,
      <<"d", "a", "v", "i", "d">>,
      <<"v", "i", "c", "t", "o", "r">>,
      <<"w", "i", "l", "l", "i", "a", "m">>,
      <<"s", "t", "e", "p", "h", "a", "n", "i", "e">>,
      <<"m", "e", "l", "i", "s", "s", "a">>,
      <<"j", "e", "s", "s", "i", "c", "a">>,
      <<"m", "i", "c", "h", "a", "e", "l">>,
      <<"k", "e", "v", "i", "n">>,
      <<"s", "t", "e", "v", "e", "n">>,
      <<"j", "o", "n", "a", "t", "h", "a", "n">>,
      <<"c", "h", "r", "i", "s", "t", "o", "p", "h", "e", "r">>,
      <<"o", "s", "c", "a", "r">>,
      <<"g", "u", "s", "t", "a", "v", "o">>,
      <<"e", "s", "t", "e", "b", "a", "n">>,
      <<"t", "a", "t", "i", "a", "n", "a">>,
      <<"v", "i", "v", "i", "a", "n", "a">> }

spanish_surname_prefixes ==
    {
      <<"d", "e">>,
      <<"d", "e", "l">>,
      <<"l", "a">>,
      <<"l", "o", "s">>,
      <<"l", "a", "s">>,
      <<"y">>,
      <<"v", "o", "n">>,
      <<"v", "a", "n">>,
      <<"d", "i">>,
      <<"d", "a">>,
      <<"d", "o", "s">>,
      <<"a", "n", "g", "e", "l", "e", "s">> }

\* _normalize_word: lower-case, accents removed
NormalizeWord(word) == StripAccents(ToLower(word))

IsGivenName(word) == NormalizeWord(word) \in spanish_given_names

IsSpanishFormatCapsFirst(raw_name, name_parts) ==
    /\ Len(name_parts) >= 2
    /\ \/ IsUpper(raw_name) /\ Len(name_parts) >= 3
       \/ /\ ~IsGivenName(name_parts[1])
          /\ Len(name_parts) = 4
          /\ IsGivenName(name_parts[3]) /\ IsGivenName(name_parts[4])

\* Lines 277-293: TIER 1 detection of the surname-first format.  The test on
\* all-caps input is the elif of `len(name_parts) == 4`, so it is not reached
\* for a name of exactly 4 parts.
IsSpanishFormat(raw_name, name_parts) ==
    IF Len(name_parts) >= 2
    THEN IF IsGivenName(name_parts[1]) THEN FALSE
         ELSE IF Len(name_parts) = 4
              THEN IsGivenName(name_parts[3]) /\ IsGivenName(name_parts[4])
              ELSE IsUpper(raw_name) /\ Len(name_parts) >= 3
    ELSE FALSE

RECURSIVE TrailingGivenNames(_, _)
\* Lines 309-316: given names and surname prefixes counted from the end
TrailingGivenNames(name_parts, i) ==
    IF i < 1 THEN 0
    ELSE IF IsGivenName(name_parts[i])
            \/ NormalizeWord(name_parts[i]) \in spanish_surname_prefixes
         THEN 1 + TrailingGivenNames(name_parts, i - 1)
         ELSE 0

Sp == <<" ">>
Names(first_name, last_name) == [first_name |-> first_name, last_name |-> last_name]
PartsFrom(name_parts, i) == SubSeq(name_parts, i, Len(name_parts))

SpanishSplitByCount(name_parts) ==
    LET n == Len(name_parts)
        k == TrailingGivenNames(name_parts, n)
    IN  IF n >= 4 /\ k >= 1 /\ k < n
        THEN Names(Join(PartsFrom(name_parts, n - k + 1), Sp),
                   Join(SubSeq(name_parts, 1, n - k), Sp))
        ELSE Names(Join(PartsFrom(name_parts, 3), Sp),
                   Join(SubSeq(name_parts, 1, 2), Sp))

\* Lines 295-323: surname-first split.  Both branches of the tests on the
\* third word and on the trailing given-name count assign the same values.
SpanishSplit(name_parts) ==
    CASE Len(name_parts) = 2 -> Names(name_parts[2], name_parts[1])
      [] Len(name_parts) = 3 ->
            IF IsGivenName(name_parts[3])
            THEN Names(name_parts[3], Join(SubSeq(name_parts, 1, 2), Sp))
            ELSE Names(name_parts[3], Join(SubSeq(name_parts, 1, 2), Sp))
      [] Len(name_parts) >= 4 ->
            IF TrailingGivenNames(name_parts, Len(name_parts)) >= 2
            THEN Names(Join(PartsFrom(name_parts, 3), Sp),
                       Join(SubSeq(name_parts, 1, 2), Sp))
            ELSE Names(Join(PartsFrom(name_parts, 3), Sp),
                       Join(SubSeq(name_parts, 1, 2), Sp))
      [] OTHER -> Names(<<>>, <<>>)

\* Lines 339-352: HumanName(raw_name) on a name of one or two plain words
\* (no title, suffix, nickname or comma): first is the first word, last the
\* second, middle empty; then the fallback for an empty result.
HumanNameSplit(raw_name, name_parts) ==
    LET hn == Names(name_parts[1],
                    IF Len(name_parts) >= 2 THEN Join(PartsFrom(name_parts, 2), Sp)
                    ELSE <<>>)
    IN  IF hn.first_name = <<>> /\ hn.last_name = <<>>
        THEN IF Len(name_parts) >= 2
             THEN Names(name_parts[1], Join(PartsFrom(name_parts, 2), Sp))
             ELSE Names(raw_name, <<>>)
        ELSE hn

\* Lines 325-352: TIER 2 normal order, TIER 3 below three parts
NormalSplit(raw_name, name_parts) ==
    CASE Len(name_parts) = 3 ->
            Names(name_parts[1], Join(PartsFrom(name_parts, 2), Sp))
      [] Len(name_parts) >= 4 ->
            IF IsGivenName(name_parts[1]) /\ IsGivenName(name_parts[2])
            THEN Names(Join(SubSeq(name_parts, 1, 2), Sp),
                       Join(PartsFrom(name_parts, 3), Sp))
            ELSE Names(name_parts[1], Join(PartsFrom(name_parts, 2), Sp))
      [] OTHER -> HumanNameSplit(raw_name, name_parts)

EmptyName ==
    [first_name |-> <<>>, last_name |-> <<>>, full_name |-> <<>>,
     business_title |-> <<>>, suffix |-> <<>>]

\* Lines 354-363: the full name rebuilt and everything title-cased
BuildName(raw_name, split) ==
    LET proper_full_name == Strip(split.first_name \o Sp \o split.last_name)
    IN  [first_name |-> Title(split.first_name),
         last_name  |-> Title(split.last_name),
         full_name  |-> IF proper_full_name # <<>> THEN Title(proper_full_name)
                        ELSE Title(raw_name),
         business_title |-> <<>>,
         suffix |-> <<>>]

\* parse_name from the detection on: the split of the order given, then casing
ParseNameAs(is_spanish_format, raw_name, name_parts) ==
    BuildName(raw_name,
              IF is_spanish_format THEN SpanishSplit(name_parts)
              ELSE NormalSplit(raw_name, name_parts))

ParseName(full_name) ==
    IF full_name = None \/ Strip(full_name) = <<>> THEN EmptyName
    ELSE LET raw_name == Strip(full_name)
             name_parts == Split(raw_name)
         IN  ParseNameAs(IsSpanishFormat(raw_name, name_parts), raw_name, name_parts)

\* Bounds of the name inputs.
MaxNameParts == 5       \* names of 1..MaxNameParts words

NameWords == { <<"j", "u", "a", "n">>, <<"m", "a", "r", "i'", "a">>, <<"p", "e", "r", "e", "z">>, <<"r", "o", "d", "r", "i", "g", "u", "e", "z">> }

NameCasings == {"lower", "UPPER", "Title", " UPPER  padded "}

Cased(words, casing) ==
    CASE casing = "lower" -> Join(words, Sp)
      [] casing = "UPPER" -> ToUpper(Join(words, Sp))
      [] casing = "Title" -> Title(Join(words, Sp))
      [] OTHER -> Sp \o ToUpper(Join(words, Sp \o Sp)) \o Sp

NameInputs ==
    { Cased(words, casing) :
        words \in UNION { [1..k -> NameWords] : k \in 1..MaxNameParts },
        casing \in NameCasings }

InitName ==
    /\ BatchInit
    /\ storage_mode = "seaweedfs"
    /\ fn = "parse_name"
    /\ arg \in NameInputs
    /\ ret = <<>>
    /\ locals = <<>>
    /\ done = FALSE

CallParseName ==
    /\ fn = "parse_name"
    /\ ~done
    /\ ret' = ParseName(arg)
    /\ done' = TRUE
    /\ UNCHANGED <<fn, arg, locals, mainVars>>

NextName == CallParseName

SpecName == InitName /\ [][NextName]_vars


----------------------------------------------------------------------------
(***************************************************************************)
(* Properties of parse_name                                                *)
(***************************************************************************)
NameCalled == fn = "parse_name" /\ done

ArgParts == Split(Strip(arg))

\* The detection as one flat else-if chain: given first word; exactly four
\* words ending in two given names; all upper case with three or more words.
SpanishOrderChain(raw_name, name_parts) ==
    IF Len(name_parts) >= 1 /\ IsGivenName(name_parts[1]) THEN FALSE
    ELSE IF Len(name_parts) = 4 /\ IsGivenName(name_parts[3]) /\ IsGivenName(name_parts[4])
         THEN TRUE
         ELSE IsUpper(raw_name) /\ Len(name_parts) >= 3

C17_SplitByTier ==
    NameCalled =>
        LET p == ArgParts
            n == Len(p)
            spanish == IsSpanishFormat(Strip(arg), p)
            Is(given, surname) ==
                /\ ret.first_name = Title(Join(given, Sp))
                /\ ret.last_name = Title(Join(surname, Sp))
        IN  /\ spanish /\ n = 2 => Is(<<p[2]>>, <<p[1]>>)
            /\ spanish /\ n = 3 => Is(<<p[3]>>, SubSeq(p, 1, 2))
            /\ spanish /\ n >= 4 => Is(PartsFrom(p, 3), SubSeq(p, 1, 2))
            /\ ~spanish /\ n = 3 => Is(<<p[1]>>, PartsFrom(p, 2))
            /\ ~spanish /\ n >= 4 =>
                   IF IsGivenName(p[1]) /\ IsGivenName(p[2])
                   THEN Is(SubSeq(p, 1, 2), PartsFrom(p, 3))
                   ELSE Is(<<p[1]>>, PartsFrom(p, 2))

\* "PEREZ RODRIGUEZ PEREZ JUAN MARI'A": surname-first, five words, two
\* trailing given names, and still the surname is the first two words
C17_Witness ==
    /\ NameCalled
    /\ IsSpanishFormat(Strip(arg), ArgParts)
    /\ Len(ArgParts) = 5
    /\ TrailingGivenNames(ArgParts, 5) = 2
    /\ ret.last_name = <<"P", "e", "r", "e", "z", " ", "R", "o", "d", "r", "i", "g", "u", "e", "z">>
    /\ ret.first_name = <<"P", "e", "r", "e", "z", " ", "J", "u", "a", "n", " ", "M", "a", "r", "i'", "a">>

\* C18: an all-upper-case name of three words whose first word is a given
\* name comes back with first_name the title-cased first word, last_name the
\* title-cased second and third words, and full_name first_name + " " +
\* last_name.
C18_GivenFirstAllCaps ==
    (NameCalled /\ IsUpper(arg) /\ Len(ArgParts) = 3 /\ IsGivenName(ArgParts[1])) =>
        /\ ret.first_name = Title(ArgParts[1])
        /\ ret.last_name = Title(ArgParts[2]) \o Sp \o Title(ArgParts[3])
        /\ ret.full_name = ret.first_name \o Sp \o ret.last_name

C18_Witness ==
    /\ NameCalled
    /\ arg = <<"J", "U", "A", "N", " ", "P", "E", "R", "E", "Z", " ", "R", "O", "D", "R", "I", "G", "U", "E", "Z">>
    /\ ret.first_name = <<"J", "u", "a", "n">>
    /\ ret.last_name = <<"P", "e", "r", "e", "z", " ", "R", "o", "d", "r", "i", "g", "u", "e", "z">>
    /\ ret.full_name = <<"J", "u", "a", "n", " ", "P", "e", "r", "e", "z", " ", "R", "o", "d", "r", "i", "g", "u", "e", "z">>


----------------------------------------------------------------------------
(***************************************************************************)
(* DataNormalizer.smart_title_case and DataNormalizer.format_field         *)
(***************************************************************************)
lowercase_words ==
    { <<"d", "e">>,
      <<"d", "e", "l">>,
      <<"l", "a">>,
      <<"l", "a", "s">>,
      <<"l", "o", "s">>,
      <<"y">>,
      <<"e", "l">>,
      <<"u", "n">>,
      <<"u", "n", "a">>,
      <<"u", "n", "o", "s">>,
      <<"u", "n", "a", "s">>,
      <<"e", "n">>,
      <<"c", "o", "n">>,
      <<"s", "i", "n">>,
      <<"p", "o", "r">>,
      <<"p", "a", "r", "a">>,
      <<"d", "e", "s", "d", "e">>,
      <<"h", "a", "s", "t", "a">>,
      <<"a">>,
      <<"a", "n">>,
      <<"t", "h", "e">>,
      <<"o", "f">>,
      <<"a", "n", "d">>,
      <<"o", "r">>,
      <<"i", "n">>,
      <<"o", "n">>,
      <<"a", "t">>,
      <<"t", "o">>,
      <<"f", "o", "r">>,
      <<"w", "i", "t", "h">>,
      <<"f", "r", "o", "m">>,
      <<"b", "y">>,
      <<"a", "s">>,
      <<"i", "s">>,
      <<"w", "a", "s">>,
      <<"a", "r", "e">>,
      <<"w", "e", "r", "e">> }

lowercase_fields ==
    { "email", "business_url", "personal_url",
      "business_linkedin", "social_instagram", "social_twitter",
      "social_facebook" }

smart_title_fields ==
    { "address_street", "address_city", "address_state",
      "address_country", "business_title", "business_department",
      "business_address_street", "business_address_city", "business_address_state",
      "business_address_country" }

SmartTitleCase(text) ==
    LET words == Split(text)
        Word(i) == IF i = 1 \/ i = Len(words) THEN Capitalize(words[i])
                   ELSE IF ToLower(words[i]) \in lowercase_words THEN ToLower(words[i])
                   ELSE Capitalize(words[i])
    IN  IF words = <<>> THEN text
        ELSE Join([i \in 1..Len(words) |-> Word(i)], Sp)

RECURSIVE DecimalOf(_)
\* str(n) of the f-string
DecimalOf(n) ==
    LET digit == <<"0", "1", "2", "3", "4", "5", "6", "7", "8", "9">>
    IN  IF n < 10 THEN <<digit[n + 1]>>
        ELSE DecimalOf(n \div 10) \o <<digit[(n % 10) + 1]>>

Placeholder(n) == <<"_", "_", "P", "A", "R", "E", "N", "_">> \o DecimalOf(n) \o <<"_", "_">>

\* Position of the first ")" at or after i, 0 when there is none
RECURSIVE CloseFrom(_, _)
CloseFrom(text, i) ==
    IF i > Len(text) THEN 0
    ELSE IF text[i] = ")" THEN i ELSE CloseFrom(text, i + 1)

\* re.sub(r'\([^)]+\)', preserve_parens, text) from position i: the text with
\* each match replaced by its placeholder, and the matches in order
RECURSIVE PreserveParensFrom(_, _, _)
PreserveParensFrom(text, i, found) ==
    IF i > Len(text) THEN [text |-> <<>>, content |-> found]
    ELSE LET j == IF text[i] = "(" THEN CloseFrom(text, i + 1) ELSE 0
         IN  IF j > i + 1
             THEN LET rest == PreserveParensFrom(text, j + 1,
                                                 Append(found, SubSeq(text, i, j)))
                  IN  [rest EXCEPT !.text = Placeholder(Len(found)) \o @]
             ELSE LET rest == PreserveParensFrom(text, i + 1, found)
                  IN  [rest EXCEPT !.text = <<text[i]>> \o @]

PreserveParens(text) == PreserveParensFrom(text, 1, <<>>)

\* The loop `formatted = formatted.replace(key, original)` over the dict, in
\* insertion order
RECURSIVE Restore(_, _, _, _)
Restore(formatted, keys, content, n) ==
    IF n > Len(content) THEN formatted
    ELSE Restore(Replace(formatted, keys[n], content[n]), keys, content, n + 1)

\* The placeholders as they are searched for after smart_title_case (line 162)
SmartKeys(content) == [n \in 1..Len(content) |-> Placeholder(n - 1)]

\* The placeholders as they are searched for after str.title (line 182)
PlainKeys(content) == [n \in 1..Len(content) |-> Title(Placeholder(n - 1))]

FormatField(key, value) ==
    IF value = None \/ Strip(value) = <<>> THEN <<>>
    ELSE LET text == Strip(value)
             p == PreserveParens(text)
         IN  CASE key = "business_name" -> text
               [] key \in lowercase_fields -> ToLower(text)
               [] key \in smart_title_fields ->
                    Restore(SmartTitleCase(p.text), SmartKeys(p.content), p.content, 1)
               [] OTHER ->
                    Restore(Title(p.text), PlainKeys(p.content), p.content, 1)


\* Bounds of the format_field inputs.
MaxPieces == 4          \* values are 1..MaxPieces pieces put end to end

FormatPieces ==
    { <<"G", "e", "r", "e", "n", "t", "e">>,
      <<"d", "e">>,
      <<" ">>,
      <<"(", "C", "E", "O", ")">>,
      <<"(", "a", " ", "B", ")">>,
      <<"(">> }

RECURSIVE Concat(_)
Concat(pieces) == IF pieces = <<>> THEN <<>> ELSE Head(pieces) \o Concat(Tail(pieces))

FormatValues ==
    {None} \cup { Concat(pieces) :
                    pieces \in UNION { [1..k -> FormatPieces] : k \in 1..MaxPieces } }

\* One key of each casing rule: verbatim, lower case, smart title case (two),
\* plain title case
FormatKeys ==
    {"business_name", "email", "business_title", "address_street", "personal_bio"}

InitFormat ==
    /\ BatchInit
    /\ storage_mode = "seaweedfs"
    /\ fn = "format_field"
    /\ arg \in [key : FormatKeys, value : FormatValues]
    /\ ret = <<>>
    /\ locals = <<>>
    /\ done = FALSE

CallFormatField ==
    /\ fn = "format_field"
    /\ ~done
    /\ ret' = FormatField(arg.key, arg.value)
    /\ done' = TRUE
    /\ UNCHANGED <<fn, arg, locals, mainVars>>

NextFormat == CallFormatField

SpecFormat == InitFormat /\ [][NextFormat]_vars

----------------------------------------------------------------------------
(***************************************************************************)
(* Properties of format_field                                              *)
(***************************************************************************)
FormatCalled == fn = "format_field" /\ done

CasedKey(key) == key # "business_name" /\ key \notin lowercase_fields

SpansOf(value) == IF value = None THEN <<>> ELSE PreserveParens(Strip(value)).content

PlaceholderIn(s) == Contains(ToLower(s), ToLower(<<"_", "_", "P", "A", "R", "E", "N", "_">>))

SpansKept(value, formatted) ==
    /\ \A n \in 1..Len(SpansOf(value)) : Contains(formatted, SpansOf(value)[n])
    /\ ~PlaceholderIn(formatted)

\* C19: in both casing modes (plain and smart title case) every parenthesized
\* span of the input is in the output with its original characters and casing,
\* wherever it stands, and the output holds no placeholder text.
C19_ParenSpansKept ==
    (FormatCalled /\ CasedKey(arg.key)) => SpansKept(arg.value, ret)


----------------------------------------------------------------------------
(***************************************************************************)
(* FIELD_MAPPING and BatchParser.map_row                                   *)
(***************************************************************************)
FIELD_MAPPING == <<
    [field |-> "first_name", aliases |-> <<
        <<"f", "i", "r", "s", "t", "_", "n", "a", "m", "e">>,
        <<"f", "i", "r", "s", "t", "N", "a", "m", "e">>,
        <<"f", "i", "r", "s", "t", " ", "n", "a", "m", "e">>,
        <<"f", "i", "r", "s", "t", "n", "a", "m", "e">>,
        <<"f", "n", "a", "m", "e">>,
        <<"g", "i", "v", "e", "n", " ", "n", "a", "m", "e">>,
        <<"n", "o", "m", "b", "r", "e">>>>],
    [field |-> "last_name", aliases |-> <<
        <<"l", "a", "s", "t", "_", "n", "a", "m", "e">>,
        <<"l", "a", "s", "t", "N", "a", "m", "e">>,
        <<"l", "a", "s", "t", " ", "n", "a", "m", "e">>,
        <<"l", "a", "s", "t", "n", "a", "m", "e">>,
        <<"l", "n", "a", "m", "e">>,
        <<"s", "u", "r", "n", "a", "m", "e">>,
        <<"f", "a", "m", "i", "l", "y", " ", "n", "a", "m", "e">>,
        <<"a", "p", "e", "l", "l", "i", "d", "o", "s">>>>],
    [field |-> "full_name", aliases |-> <<
        <<"f", "u", "l", "l", "_", "n", "a", "m", "e">>,
        <<"f", "u", "l", "l", "N", "a", "m", "e">>,
        <<"f", "u", "l", "l", " ", "n", "a", "m", "e">>,
        <<"n", "o", "m", "b", "r", "e", " ", "c", "o", "m", "p", "l", "e", "t", "o">>>>],
    [field |-> "email", aliases |-> <<
        <<"e", "m", "a", "i", "l">>,
        <<"e", "-", "m", "a", "i", "l">>,
        <<"m", "a", "i", "l">>,
        <<"e", "m", "a", "i", "l", " ", "a", "d", "d", "r", "e", "s", "s">>,
        <<"c", "o", "r", "r", "e", "o">>,
        <<"c", "o", "r", "r", "e", "o", " ", "e", "l", "e", "c", "t", "r", "o'", "n", "i", "c", "o">>,
        <<"c", "o", "r", "r", "e", "o", " ", "e", "l", "e", "c", "t", "r", "o", "n", "i", "c", "o">>>>],
    [field |-> "work_phone", aliases |-> <<
        <<"w", "o", "r", "k", "_", "p", "h", "o", "n", "e">>,
        <<"w", "o", "r", "k", "P", "h", "o", "n", "e">>,
        <<"w", "o", "r", "k", " ", "p", "h", "o", "n", "e">>,
        <<"o", "f", "f", "i", "c", "e", " ", "p", "h", "o", "n", "e">>,
        <<"b", "u", "s", "i", "n", "e", "s", "s", " ", "p", "h", "o", "n", "e">>,
        <<"t", "e", "l">>,
        <<"p", "h", "o", "n", "e">>,
        <<"t", "e", "l", "e", "f", "o", "n", "o">>,
        <<"t", "e", "l", "e'", "f", "o", "n", "o">>,
        <<"t", "e", "l", "e", "f", "o", "n", "o", " ", "o", "f", "i">>,
        <<"t", "e", "l", "e'", "f", "o", "n", "o", " ", "o", "f", "i">>>>],
    [field |-> "work_phone_ext", aliases |-> <<
        <<"w", "o", "r", "k", "_", "p", "h", "o", "n", "e", "_", "e", "x", "t">>,
        <<"e", "x", "t">>,
        <<"e", "x", "t", "e", "n", "s", "i", "o", "n">>,
        <<"e", "x", "t", "e", "n", "s", "i", "o'", "n">>>>],
    [field |-> "mobile_phone", aliases |-> <<
        <<"m", "o", "b", "i", "l", "e", "_", "p", "h", "o", "n", "e">>,
        <<"m", "o", "b", "i", "l", "e", "P", "h", "o", "n", "e">>,
        <<"m", "o", "b", "i", "l", "e">>,
        <<"c", "e", "l", "l">>,
        <<"c", "e", "l", "l", "u", "l", "a", "r">>,
        <<"m", "o", "b", "i", "l", "e", " ", "p", "h", "o", "n", "e">>,
        <<"c", "e", "l", "l", " ", "p", "h", "o", "n", "e">>,
        <<"c", "e", "l", "u", "l", "a", "r">>,
        <<"m", "o'", "v", "i", "l">>>>],
    [field |-> "address_street", aliases |-> <<
        <<"a", "d", "d", "r", "e", "s", "s", "_", "s", "t", "r", "e", "e", "t">>,
        <<"a", "d", "d", "r", "e", "s", "s">>,
        <<"s", "t", "r", "e", "e", "t">>,
        <<"s", "t", "r", "e", "e", "t", " ", "a", "d", "d", "r", "e", "s", "s">>,
        <<"d", "i", "r", "e", "c", "c", "i", "o'", "n">>,
        <<"d", "i", "r", "e", "c", "c", "i", "o", "n">>,
        <<"c", "a", "l", "l", "e">>>>],
    [field |-> "address_city", aliases |-> <<
        <<"a", "d", "d", "r", "e", "s", "s", "_", "c", "i", "t", "y">>,
        <<"c", "i", "t", "y">>,
        <<"t", "o", "w", "n">>,
        <<"c", "i", "u", "d", "a", "d">>>>],
    [field |-> "address_state", aliases |-> <<
        <<"a", "d", "d", "r", "e", "s", "s", "_", "s", "t", "a", "t", "e">>,
        <<"s", "t", "a", "t", "e">>,
        <<"p", "r", "o", "v", "i", "n", "c", "e">>,
        <<"r", "e", "g", "i", "o", "n">>,
        <<"e", "s", "t", "a", "d", "o">>,
        <<"p", "r", "o", "v", "i", "n", "c", "i", "a">>>>],
    [field |-> "address_postal", aliases |-> <<
        <<"a", "d", "d", "r", "e", "s", "s", "_", "p", "o", "s", "t", "a", "l">>,
        <<"z", "i", "p">>,
        <<"p", "o", "s", "t", "a", "l">>,
        <<"z", "i", "p", " ", "c", "o", "d", "e">>,
        <<"p", "o", "s", "t", "a", "l", " ", "c", "o", "d", "e">>,
        <<"c", "o'", "d", "i", "g", "o", " ", "p", "o", "s", "t", "a", "l">>,
        <<"c", "o", "d", "i", "g", "o", " ", "p", "o", "s", "t", "a", "l">>>>],
    [field |-> "address_country", aliases |-> <<
        <<"a", "d", "d", "r", "e", "s", "s", "_", "c", "o", "u", "n", "t", "r", "y">>,
        <<"c", "o", "u", "n", "t", "r", "y">>,
        <<"n", "a", "t", "i", "o", "n">>,
        <<"p", "a", "i'", "s">>,
        <<"p", "a", "i", "s">>>>],
    [field |-> "social_instagram", aliases |-> <<
        <<"s", "o", "c", "i", "a", "l", "_", "i", "n", "s", "t", "a", "g", "r", "a", "m">>,
        <<"i", "n", "s", "t", "a", "g", "r", "a", "m">>,
        <<"i", "g">>>>],
    [field |-> "social_twitter", aliases |-> <<
        <<"s", "o", "c", "i", "a", "l", "_", "t", "w", "i", "t", "t", "e", "r">>,
        <<"t", "w", "i", "t", "t", "e", "r">>,
        <<"x">>>>],
    [field |-> "social_facebook", aliases |-> <<
        <<"s", "o", "c", "i", "a", "l", "_", "f", "a", "c", "e", "b", "o", "o", "k">>,
        <<"f", "a", "c", "e", "b", "o", "o", "k">>,
        <<"f", "b">>>>],
    [field |-> "business_name", aliases |-> <<
        <<"b", "u", "s", "i", "n", "e", "s", "s", "_", "n", "a", "m", "e">>,
        <<"o", "r", "g", "a", "n", "i", "z", "a", "t", "i", "o", "n">>,
        <<"c", "o", "m", "p", "a", "n", "y">>,
        <<"b", "u", "s", "i", "n", "e", "s", "s">>,
        <<"o", "r", "g">>,
        <<"e", "m", "p", "r", "e", "s", "a">>>>],
    [field |-> "business_title", aliases |-> <<
        <<"b", "u", "s", "i", "n", "e", "s", "s", "_", "t", "i", "t", "l", "e">>,
        <<"t", "i", "t", "l", "e">>,
        <<"j", "o", "b", " ", "t", "i", "t", "l", "e">>,
        <<"p", "o", "s", "i", "t", "i", "o", "n">>,
        <<"r", "o", "l", "e">>,
        <<"p", "u", "e", "s", "t", "o">>,
        <<"c", "a", "r", "g", "o">>>>],
    [field |-> "business_department", aliases |-> <<
        <<"b", "u", "s", "i", "n", "e", "s", "s", "_", "d", "e", "p", "a", "r", "t", "m", "e", "n", "t">>,
        <<"d", "e", "p", "a", "r", "t", "m", "e", "n", "t">>,
        <<"d", "e", "p", "t">>,
        <<"d", "e", "p", "a", "r", "t", "a", "m", "e", "n", "t", "o">>,
        <<"a", "r", "e", "a">>>>],
    [field |-> "business_url", aliases |-> <<
        <<"b", "u", "s", "i", "n", "e", "s", "s", "_", "u", "r", "l">>,
        <<"w", "e", "b", "s", "i", "t", "e">>,
        <<"u", "r", "l">>,
        <<"w", "e", "b">>,
        <<"s", "i", "t", "i", "o", " ", "w", "e", "b">>>>],
    [field |-> "business_hours", aliases |-> <<
        <<"b", "u", "s", "i", "n", "e", "s", "s", "_", "h", "o", "u", "r", "s">>,
        <<"h", "o", "u", "r", "s">>,
        <<"b", "u", "s", "i", "n", "e", "s", "s", " ", "h", "o", "u", "r", "s">>,
        <<"h", "o", "r", "a", "r", "i", "o">>>>],
    [field |-> "business_address_street", aliases |-> <<
        <<"b", "u", "s", "i", "n", "e", "s", "s", "_", "a", "d", "d", "r", "e", "s", "s", "_", "s", "t", "r", "e", "e", "t">>,
        <<"b", "u", "s", "i", "n", "e", "s", "s", " ", "a", "d", "d", "r", "e", "s", "s">>,
        <<"b", "u", "s", "i", "n", "e", "s", "s", " ", "s", "t", "r", "e", "e", "t">>,
        <<"d", "i", "r", "e", "c", "c", "i", "o'", "n", " ", "t", "r", "a", "b", "a", "j", "o">>>>],
    [field |-> "business_address_city", aliases |-> <<
        <<"b", "u", "s", "i", "n", "e", "s", "s", "_", "a", "d", "d", "r", "e", "s", "s", "_", "c", "i", "t", "y">>,
        <<"b", "u", "s", "i", "n", "e", "s", "s", " ", "c", "i", "t", "y">>,
        <<"c", "i", "u", "d", "a", "d", " ", "t", "r", "a", "b", "a", "j", "o">>>>],
    [field |-> "business_address_state", aliases |-> <<
        <<"b", "u", "s", "i", "n", "e", "s", "s", "_", "a", "d", "d", "r", "e", "s", "s", "_", "s", "t", "a", "t", "e">>,
        <<"b", "u", "s", "i", "n", "e", "s", "s", " ", "s", "t", "a", "t", "e">>,
        <<"e", "s", "t", "a", "d", "o", " ", "t", "r", "a", "b", "a", "j", "o">>>>],
    [field |-> "business_address_postal", aliases |-> <<
        <<"b", "u", "s", "i", "n", "e", "s", "s", "_", "a", "d", "d", "r", "e", "s", "s", "_", "p", "o", "s", "t", "a", "l">>,
        <<"b", "u", "s", "i", "n", "e", "s", "s", " ", "z", "i", "p">>,
        <<"p", "o", "s", "t", "a", "l", " ", "t", "r", "a", "b", "a", "j", "o">>>>],
    [field |-> "business_address_country", aliases |-> <<
        <<"b", "u", "s", "i", "n", "e", "s", "s", "_", "a", "d", "d", "r", "e", "s", "s", "_", "c", "o", "u", "n", "t", "r", "y">>,
        <<"b", "u", "s", "i", "n", "e", "s", "s", " ", "c", "o", "u", "n", "t", "r", "y">>,
        <<"p", "a", "i'", "s", " ", "t", "r", "a", "b", "a", "j", "o">>>>],
    [field |-> "business_linkedin", aliases |-> <<
        <<"b", "u", "s", "i", "n", "e", "s", "s", "_", "l", "i", "n", "k", "e", "d", "i", "n">>,
        <<"l", "i", "n", "k", "e", "d", "i", "n">>,
        <<"l", "i">>>>],
    [field |-> "business_twitter", aliases |-> <<
        <<"b", "u", "s", "i", "n", "e", "s", "s", "_", "t", "w", "i", "t", "t", "e", "r">>,
        <<"c", "o", "m", "p", "a", "n", "y", " ", "t", "w", "i", "t", "t", "e", "r">>>>],
    [field |-> "personal_url", aliases |-> <<
        <<"p", "e", "r", "s", "o", "n", "a", "l", "_", "u", "r", "l">>,
        <<"p", "e", "r", "s", "o", "n", "a", "l", " ", "w", "e", "b", "s", "i", "t", "e">>,
        <<"p", "e", "r", "s", "o", "n", "a", "l", " ", "u", "r", "l">>,
        <<"s", "i", "t", "i", "o", " ", "p", "e", "r", "s", "o", "n", "a", "l">>>>],
    [field |-> "personal_bio", aliases |-> <<
        <<"p", "e", "r", "s", "o", "n", "a", "l", "_", "b", "i", "o">>,
        <<"n", "o", "t", "e", "s">>,
        <<"c", "o", "m", "m", "e", "n", "t", "s">>,
        <<"d", "e", "s", "c", "r", "i", "p", "t", "i", "o", "n">>,
        <<"n", "o", "t", "a", "s">>,
        <<"c", "o", "m", "e", "n", "t", "a", "r", "i", "o", "s">>,
        <<"b", "i", "o">>,
        <<"b", "i", "o", "g", "r", "a", "p", "h", "y">>>>],
    [field |-> "personal_birthday", aliases |-> <<
        <<"p", "e", "r", "s", "o", "n", "a", "l", "_", "b", "i", "r", "t", "h", "d", "a", "y">>,
        <<"b", "i", "r", "t", "h", "d", "a", "y">>,
        <<"d", "o", "b">>,
        <<"c", "u", "m", "p", "l", "e", "a", "n~", "o", "s">>,
        <<"f", "e", "c", "h", "a", " ", "n", "a", "c", "i", "m", "i", "e", "n", "t", "o">>>>] >>

Fields == { FIELD_MAPPING[i].field : i \in 1..Len(FIELD_MAPPING) }

AliasesOf(target_field) ==
    FIELD_MAPPING[CHOOSE i \in 1..Len(FIELD_MAPPING) :
                      FIELD_MAPPING[i].field = target_field].aliases

NameFields == {"first_name", "last_name", "full_name"}

\* A row is the sequence of its columns [label, cell]; a cell is str(val), or
\* None when pd.isna(val).

\* Line 214: the key of a column label in row_keys
RowKey(label) == Strip(ToLower(label))

\* row_keys[key]: the last column whose label has that key; 0 when none has
ColumnOf(row, key) ==
    IF \E i \in 1..Len(row) : RowKey(row[i].label) = key
    THEN CHOOSE i \in 1..Len(row) :
            /\ RowKey(row[i].label) = key
            /\ \A j \in (i + 1)..Len(row) : RowKey(row[j].label) # key
    ELSE 0

\* Lines 224-228: stripped, and a trailing ".0" removed
ValStr(val) ==
    LET val_str == Strip(val)
    IN  IF EndsWith(val_str, <<".", "0">>) THEN SubSeq(val_str, 1, Len(val_str) - 2)
        ELSE val_str

\* Lines 223-231: the cell gives the field a value
Usable(val) == val # None /\ ValStr(val) \notin {<<>>, <<"0">>}

AliasCell(row, alias) == row[ColumnOf(row, ToLower(alias))].cell

RECURSIVE FirstUsableStopsAtMatch(_, _, _)
FirstUsableStopsAtMatch(row, aliases, i) ==
    IF i > Len(aliases) THEN 0
    ELSE IF ColumnOf(row, ToLower(aliases[i])) # 0
         THEN IF Usable(AliasCell(row, aliases[i])) THEN i ELSE 0
         ELSE FirstUsableStopsAtMatch(row, aliases, i + 1)

\* Lines 219-239: the alias loop; the index of the alias at which it breaks, 0
\* when it ends without a value.  A matched alias whose cell is missing, empty
\* or "0" does not end the loop.
RECURSIVE FirstUsable(_, _, _)
FirstUsable(row, aliases, i) ==
    IF i > Len(aliases) THEN 0
    ELSE IF ColumnOf(row, ToLower(aliases[i])) # 0 /\ Usable(AliasCell(row, aliases[i]))
         THEN i
         ELSE FirstUsable(row, aliases, i + 1)

\* Lines 233-237: name fields are stored as they are, the others formatted
FieldValue(target_field, val_str) ==
    IF target_field \in NameFields THEN val_str
    ELSE FormatField(target_field, val_str)

\* The value of a field taken from the column of its alias number k
FieldFrom(row, target_field, k) ==
    IF k = 0 THEN None
    ELSE FieldValue(target_field, ValStr(AliasCell(row, AliasesOf(target_field)[k])))

\* Lines 217-241
MapAliases(row) ==
    [target_field \in Fields |->
        FieldFrom(row, target_field, FirstUsable(row, AliasesOf(target_field), 1))]

\* Lines 243-250: a first_name of several words and no last_name is split
SplitName(mapped) ==
    IF Truthy(mapped["first_name"]) /\ ~Truthy(mapped["last_name"])
       /\ Contains(mapped["first_name"], Sp)
    THEN LET parsed_name == ParseName(mapped["first_name"])
         IN  [mapped EXCEPT !["first_name"] = parsed_name.first_name,
                            !["last_name"] = parsed_name.last_name,
                            !["full_name"] = parsed_name.full_name]
    ELSE mapped

\* Lines 252-256: normalize_phone called with the phone alone, so with
\* phone_type "other" and neither prefix nor country code
MapPhone(phone) == IF Truthy(phone) THEN NormalizePhone(phone, "other", None, None) ELSE phone

NormalizePhones(mapped) ==
    [mapped EXCEPT !["mobile_phone"] = MapPhone(@), !["work_phone"] = MapPhone(@)]

MapRowFields(row) == NormalizePhones(SplitName(MapAliases(row)))


\* Bounds of the map_row inputs.
MaxPadding == 1         \* blanks around a column label: 0..MaxPadding
MaxColumns == 2         \* columns of the rows that repeat a field

AllAliases ==
    UNION { { FIELD_MAPPING[i].aliases[k] : k \in 1..Len(FIELD_MAPPING[i].aliases) } :
              i \in 1..Len(FIELD_MAPPING) }

Blanks(n) == [i \in 1..n |-> " "]

\* The spellings of an alias as a column label: as declared, upper case,
\* without accents, and with blanks around it
Spellings(alias) ==
    {alias, ToUpper(alias), StripAccents(alias)}
        \cup { Blanks(n) \o alias \o Blanks(n) : n \in 1..MaxPadding }

OneColumnCells == { <<"2", "2", "2", "2", "1", "2", "3", "4">>, <<"n", "o", "n", "e">>, <<"j", "u", "a", "n", " ", "p", "e", "r", "e", "z", " ", "s", "o", "l", "i", "s">>, <<"G", "e", "r", "e", "n", "t", "e", " ", "(", "C", "E", "O", ")">> }

OneColumnRows ==
    { <<[label |-> label, cell |-> cell]>> :
        label \in UNION { Spellings(alias) : alias \in AllAliases },
        cell \in OneColumnCells }

RepeatLabels == { <<"t", "e", "l">>, <<"P", "h", "o", "n", "e">>, <<"n", "o", "m", "b", "r", "e">>, <<"a", "p", "e", "l", "l", "i", "d", "o", "s">> }

RepeatCells == { None, <<>>, <<"0">>, <<"0", ".", "0">>, <<"2", "2", "2", "2", "1", "2", "3", "4">>, <<"j", "u", "a", "n", " ", "p", "e", "r", "e", "z">> }

\* Rows of 2..MaxColumns columns with different labels, among them two aliases
\* of one field
RepeatRows ==
    UNION { { [i \in 1..n |-> [label |-> labels[i], cell |-> cells[i]]] :
                labels \in { l \in [1..n -> RepeatLabels] :
                               \A i, j \in 1..n : i # j => l[i] # l[j] },
                cells \in [1..n -> RepeatCells] } :
            n \in 2..MaxColumns }

NameCells == { <<"j", "u", "a", "n">>, <<"j", "u", "a", "n", "\t", "p", "e", "r", "e", "z">> }

\* Rows with a first-name column, alone or beside a last-name column
NameRows ==
    { <<[label |-> <<"n", "o", "m", "b", "r", "e">>, cell |-> cell]>> : cell \in NameCells }
        \cup { <<[label |-> <<"n", "o", "m", "b", "r", "e">>, cell |-> cell],
                 [label |-> <<"a", "p", "e", "l", "l", "i", "d", "o", "s">>, cell |-> <<"s", "o", "l", "i", "s">>]>> : cell \in NameCells }

InitMapRow ==
    /\ BatchInit
    /\ storage_mode = "seaweedfs"
    /\ fn = "map_row"
    /\ arg \in OneColumnRows \cup RepeatRows \cup NameRows
    /\ ret = <<>>
    /\ locals = <<>>
    /\ done = FALSE

CallMapRow ==
    /\ fn = "map_row"
    /\ ~done
    /\ ret' = MapRowFields(arg)
    /\ done' = TRUE
    /\ UNCHANGED <<fn, arg, locals, mainVars>>

NextMapRow == CallMapRow

SpecMapRow == InitMapRow /\ [][NextMapRow]_vars


----------------------------------------------------------------------------
(***************************************************************************)
(* Properties of map_row                                                   *)
(***************************************************************************)
MapRowCalled == fn = "map_row" /\ done

\* The label differs from the alias at most in letter case, surrounding
\* whitespace and accents
SameSpelling(label, alias) ==
    StripAccents(ToLower(Strip(label))) = StripAccents(ToLower(alias))

\* C11: alias resolution ignores letter case, surrounding whitespace and
\* accents: a column whose label is an alias of a field in another such
\* spelling gives that field its value, and the row maps to the same record
\* as the row that spells the label as the alias.
C11_SpellingInsensitive ==
    (MapRowCalled /\ Len(arg) = 1) =>
        \A i \in 1..Len(FIELD_MAPPING) : \A k \in 1..Len(FIELD_MAPPING[i].aliases) :
            (SameSpelling(arg[1].label, FIELD_MAPPING[i].aliases[k]) /\ Usable(arg[1].cell)) =>
                /\ ret[FIELD_MAPPING[i].field] # None
                /\ ret = MapRowFields(<<[label |-> FIELD_MAPPING[i].aliases[k],
                                         cell |-> arg[1].cell]>>)

Matched(row, alias) == ColumnOf(row, ToLower(alias)) # 0

Least(S) == CHOOSE k \in S : \A j \in S : k <= j

\* The record built from the alias number chosen for each field (0: absent)
RecordFrom(row, AliasNumber(_)) ==
    NormalizePhones(SplitName(
        [target_field \in Fields |-> FieldFrom(row, target_field, AliasNumber(target_field))]))

\* C12 as stated: each field takes the column of the first alias, in declared
\* order, that matches a column label; if that cell is "" or "0" (after the
\* ".0" is removed) the field is absent, whatever later aliases match.
C12_FirstMatchWins ==
    MapRowCalled =>
        LET FirstMatch(f) ==
                LET M == { k \in 1..Len(AliasesOf(f)) : Matched(arg, AliasesOf(f)[k]) }
                IN  IF M # {} /\ Usable(AliasCell(arg, AliasesOf(f)[Least(M)]))
                    THEN Least(M) ELSE 0
        IN  ret = RecordFrom(arg, FirstMatch)

\* C12 amended: each field takes the column of the first alias, in declared
\* order, that matches a column label and whose cell is present and, trimmed
\* and without a trailing ".0", neither "" nor "0"; the field is absent exactly
\* when no alias is such.
C12_FirstUsableWins ==
    MapRowCalled =>
        LET FirstGood(f) ==
                LET U == { k \in 1..Len(AliasesOf(f)) :
                             /\ Matched(arg, AliasesOf(f)[k])
                             /\ Usable(AliasCell(arg, AliasesOf(f)[k])) }
                IN  IF U # {} THEN Least(U) ELSE 0
        IN  ret = RecordFrom(arg, FirstGood)

\* "tel" (declared before "phone") holds "0", "Phone" holds a number
C12_Witness ==
    /\ MapRowCalled
    /\ arg = <<[label |-> <<"t", "e", "l">>, cell |-> <<"0">>], [label |-> <<"P", "h", "o", "n", "e">>, cell |-> <<"2", "2", "2", "2", "1", "2", "3", "4">>]>>
    /\ ret["work_phone"] = <<"2", "2", "2", "2", "-", "1", "2", "3", "4">>

\* C13: every field of the record is absent (None) or a non-empty formatted
\* string: never the empty string, never a value that formatting would change.
C13_AbsentOrFormatted ==
    MapRowCalled =>
        \A f \in Fields :
            \/ ret[f] = None
            \/ ret[f] # <<>> /\ FormatField(f, ret[f]) = ret[f]

IsEightDigits(val) == val # None /\ Len(val) = 8 /\ DigitsOf(val) = val

\* C14: a row whose work-phone column holds an 8-digit number gives, under a
\* policy with a country code, work_phone = "{country_code} XXXX-XXXX".
C14_WorkPhoneCountryCode ==
    (/\ MapRowCalled
     /\ Len(arg) = 1
     /\ \E k \in 1..Len(AliasesOf("work_phone")) :
            RowKey(arg[1].label) = ToLower(AliasesOf("work_phone")[k])
     /\ IsEightDigits(arg[1].cell)) =>
        \E default_country_code \in CountryCodes :
            /\ Truthy(default_country_code)
            /\ ret["work_phone"] = FormatEight(arg[1].cell, default_country_code)


----------------------------------------------------------------------------
(***************************************************************************)
(* Properties of the dual-store write, continued                           *)
(***************************************************************************)
\* C20 -- When the wide-column insert of row K fails after its narrow insert
\* succeeded, the narrow insert is not undone: once the batch is in ERROR the
\* narrow store holds a committed row for K, the wide-column store holds none
\* for K, and K is in no processed count (the counter stands at K - 1 and the
\* batch row carries no processed count).
C20_NarrowRowKept ==
    (failKind = "cas" /\ batches.status = "ERROR") =>
        /\ \E rec \in pgCommitted : rec.row = failedRow /\ rec \notin casRows
        /\ failedRow \notin RowsOf(casRows)
        /\ records_processed = failedRow - 1
        /\ batches.records_processed = -1
        /\ batches.records_count = -1

C20_Witness ==
    /\ Terminal
    /\ failKind = "cas"
    /\ failedRow = 2
    /\ batches.status = "ERROR"
    /\ RowsOf(pgCommitted) = {1, 2}
    /\ RowsOf(casRows) = {1}


----------------------------------------------------------------------------
(***************************************************************************)
(* Properties of the checkpoints                                           *)
(***************************************************************************)
InRowLoop == pc \in {"map", "pg_insert", "cas_insert", "count", "final_commit"}

\* The step after which the narrow store is committed: the count of a row
\* that brings the processed count to a multiple of 100, or the end of the loop
CheckpointStep ==
    \/ pc = "count" /\ records_processed' % CommitEvery = 0
    \/ pc = "final_commit"

\* C21 -- Checkpointing: while rows are processed the narrow store is committed
\* exactly after each row whose processed count is a multiple of 100 and after
\* the last row, so at most 100 narrow-store rows are ever inserted and not
\* yet committed; a wide-column record is visible from its insert on.
C21_Checkpointing ==
    /\ [](Cardinality(pgPending) <= CommitEvery)
    /\ [][ InRowLoop =>
             /\ IF CheckpointStep
                THEN pgCommitted' = pgCommitted \cup pgPending /\ pgPending' = {}
                ELSE pgCommitted' = pgCommitted /\ pgPending \subseteq pgPending'
             /\ casRows \subseteq casRows'
             /\ (pc = "cas_insert" /\ pc' = "count") =>
                    \E rec \in casRows' : rec.row = idx
         ]_vars

\* Row 100 is in both stores' hands: 100 narrow rows wait for the commit while
\* their 100 wide-column records are already visible
C21_Witness ==
    /\ pc = "count"
    /\ idx = CommitEvery
    /\ Cardinality(pgPending) = CommitEvery
    /\ pgCommitted = {}
    /\ \A rec \in pgPending : rec \in casRows


HasWhitespace(s) == \E i \in 1..Len(s) : IsSpace(s[i])

NamesOf(mapped) ==
    [first_name |-> mapped["first_name"], last_name |-> mapped["last_name"],
     full_name |-> mapped["full_name"]]

\* C22: name post-pass.  Exactly when first_name is populated, last_name is
\* absent and first_name contains whitespace, the three name fields are the
\* result of parse_name on the whole first_name; in every other case they are
\* as resolved from the aliases.
C22_NamePostPass ==
    MapRowCalled =>
        LET resolved == MapAliases(arg)
            parsed_name == ParseName(resolved["first_name"])
        IN  IF /\ Truthy(resolved["first_name"])
               /\ ~Truthy(resolved["last_name"])
               /\ HasWhitespace(resolved["first_name"])
            THEN NamesOf(ret) = [first_name |-> parsed_name.first_name,
                                 last_name |-> parsed_name.last_name,
                                 full_name |-> parsed_name.full_name]
            ELSE NamesOf(ret) = NamesOf(resolved)


----------------------------------------------------------------------------
(***************************************************************************)
(* FileParser.find_header_row                                              *)
(***************************************************************************)
HeaderScanRows == 20

Min(a, b) == IF a <= b THEN a ELSE b

\* Line 52: every alias of FIELD_MAPPING, lower case
all_keywords == { ToLower(alias) : alias \in AllAliases }

\* Lines 59-64: lower case, stripped, accents removed
val_normalized(val) == StripAccents(Strip(ToLower(val)))

\* Line 68: any(kw in val or val in kw for kw in all_keywords)
KeywordMatch(val) ==
    \E kw \in all_keywords : Contains(val, kw) \/ Contains(kw, val)

\* Lines 56-68: the cells of the row that are not NaN and match a keyword
Matches(row) ==
    Cardinality({ c \in 1..Len(row) :
                    row[c] # None /\ KeywordMatch(val_normalized(row[c])) })

BetterOrEqual(matches, max_matches) == matches >= max_matches

\* Line 70: if matches > max_matches
Better(matches, max_matches) == matches > max_matches

\* Bounds of the data frames.
MaxHeadRows == 2        \* rows of any kind before the run of data rows

\* A data row (no match), a header row (two matches, one through an accent)
\* and a row with one blank string cell (the empty string is in every keyword)
HeaderRowKinds ==
    { <<<<"1", "2", "3", "4", "5">>, None>>, <<<<"N", "o", "m", "b", "r", "e">>, <<"T", "e", "l", "e'", "f", "o", "n", "o">>>>, <<<<" ">>, <<"1", "2", "3", "4", "5">>>> }

DataRows(n) == [i \in 1..n |-> <<<<"1", "2", "3", "4", "5">>, None>>]

\* Some rows of any kind, a run of data rows that ends around row 20, and at
\* most one more row of any kind
HeaderFrames ==
    { head \o DataRows(n) \o tail :
        head \in UNION { [1..k -> HeaderRowKinds] : k \in 0..MaxHeadRows },
        n \in {0} \cup ((HeaderScanRows - 2)..HeaderScanRows),
        tail \in {<<>>} \cup { <<row>> : row \in HeaderRowKinds } }

InitHeader ==
    /\ BatchInit
    /\ storage_mode = "seaweedfs"
    /\ fn = "find_header_row"
    /\ arg \in HeaderFrames
    /\ ret = 0
    /\ done = FALSE
    /\ locals = [i |-> 0, max_matches |-> 0, header_idx |-> 0]

\* Lines 55-72: one turn of `for i in range(min(20, len(df)))`
ScanRow ==
    /\ fn = "find_header_row"
    /\ ~done
    /\ locals.i < Min(HeaderScanRows, Len(arg))
    /\ LET matches == Matches(arg[locals.i + 1])
       IN  locals' = IF Better(matches, locals.max_matches)
                     THEN [i |-> locals.i + 1, max_matches |-> matches,
                           header_idx |-> locals.i]
                     ELSE [locals EXCEPT !.i = @ + 1]
    /\ UNCHANGED <<fn, arg, ret, done, mainVars>>

\* Lines 74-79: row 0 when nothing matched, else the row found
ReturnHeader ==
    /\ fn = "find_header_row"
    /\ ~done
    /\ locals.i >= Min(HeaderScanRows, Len(arg))
    /\ ret' = IF locals.max_matches = 0 THEN 0 ELSE locals.header_idx
    /\ done' = TRUE
    /\ UNCHANGED <<fn, arg, locals, mainVars>>

NextHeader == ScanRow \/ ReturnHeader

SpecHeader == InitHeader /\ [][NextHeader]_vars

\* C23: find_header_row inspects only the first min(20, n) rows and returns
\* the index of the earliest of them that has the highest number of matching
\* cells, or 0 when none of them has a match; later rows do not count.
C23_HeaderRow ==
    fn = "find_header_row" =>
        LET inspected == Min(20, Len(arg))
            count == [i \in 0..(inspected - 1) |-> Matches(arg[i + 1])]
        IN  /\ locals.i <= inspected
            /\ done =>
                 /\ locals.i = inspected
                 /\ IF \A i \in 0..(inspected - 1) : count[i] = 0
                    THEN ret = 0
                    ELSE /\ ret \in 0..(inspected - 1)
                         /\ \A j \in 0..(inspected - 1) : count[j] <= count[ret]
                         /\ \A j \in 0..(ret - 1) : count[j] < count[ret]

\* Twenty data rows and a header in row 21: nothing matched, row 0 returned
C23_Witness ==
    /\ fn = "find_header_row"
    /\ done
    /\ Len(arg) = 21
    /\ Matches(arg[21]) = 2
    /\ locals.max_matches = 0
    /\ ret = 0


----------------------------------------------------------------------------
(***************************************************************************)
(* FileParser._parse_vertical_txt: the scan of clean_lines                 *)
(***************************************************************************)
LookAhead == 10

\* Line 106: "@" in line and " " not in line
IsEmailLine(line) == Contains(line, <<"@">>) /\ ~Contains(line, <<" ">>)

\* Lines 130-131: sum(c.isdigit() for c in val) >= 4
IsPhoneLine(line) == Len(DigitsOf(line)) >= 4

\* Lines 104-108: the first email line among lines[i .. min(i + 10, len) - 1]
\* (indices from 0), -1 when there is none
RECURSIVE FindEmail(_, _, _)
FindEmail(lines, j, stop) ==
    IF j >= stop THEN -1
    ELSE IF IsEmailLine(lines[j + 1]) THEN j
    ELSE FindEmail(lines, j + 1, stop)

\* Lines 126-135: the index after the run of phone lines that starts at p_idx
RECURSIVE PhonesEnd(_, _)
PhonesEnd(lines, p_idx) ==
    IF p_idx < Len(lines) /\ IsPhoneLine(lines[p_idx + 1])
    THEN PhonesEnd(lines, p_idx + 1)
    ELSE p_idx

\* Lines 142-152: each phone overwrites the field of its kind
RECURSIVE ProcessPhones(_, _, _)
ProcessPhones(raw_phones, k, phones) ==
    IF k > Len(raw_phones) THEN phones
    ELSE LET phone == raw_phones[k]
             digits == DigitsOf(phone)
         IN  ProcessPhones(raw_phones, k + 1,
                 IF Len(digits) < 8 THEN [phones EXCEPT !.work_phone_ext = phone]
                 ELSE IF digits[1] \in {"6", "7", "8"}
                      THEN [phones EXCEPT !.mobile_phone = phone]
                      ELSE [phones EXCEPT !.work_phone = phone])

\* Lines 113-161: the record anchored at the email line
AnchorRecord(lines, email_idx, p_idx) ==
    LET phones == ProcessPhones(SubSeq(lines, email_idx + 2, p_idx), 1,
                      [work_phone |-> <<>>, mobile_phone |-> <<>>,
                       work_phone_ext |-> <<>>])
    IN  [first_name |-> IF email_idx >= 2 THEN lines[email_idx - 1]
                        ELSE IF email_idx = 1 THEN lines[1] ELSE <<>>,
         business_title |-> IF email_idx >= 2 THEN lines[email_idx] ELSE <<>>,
         email |-> lines[email_idx + 1],
         work_phone |-> phones.work_phone,
         mobile_phone |-> phones.mobile_phone,
         work_phone_ext |-> phones.work_phone_ext]

NextCursorAtEmail(email_idx, p_idx) == email_idx

\* Line 165: i = p_idx
NextCursor(email_idx, p_idx) == p_idx

\* Bounds of the text files.
MaxBodyLines == 3       \* lines of any kind after the run of name lines

\* A name, an email, a work phone, a short number, a line with "@" and a
\* space, and an email with four digits
LineKinds ==
    { <<"a", "n", "a">>, <<"a", "@", "b", ".", "c">>, <<"2", "2", "2", "2", " ", "1", "2", "3", "4">>, <<"1", "2", "3">>, <<"a", " ", "@", "b">>, <<"8", "@", "1", "2", "3", "4">> }

NameLines(n) == [i \in 1..n |-> <<"a", "n", "a">>]

CleanLines ==
    { NameLines(n) \o body :
        n \in {0} \cup ((LookAhead - 1)..LookAhead),
        body \in UNION { [1..k -> LineKinds] : k \in 0..MaxBodyLines } }

InitVertical ==
    /\ BatchInit
    /\ storage_mode = "seaweedfs"
    /\ fn = "_parse_vertical_txt"
    /\ arg \in CleanLines
    /\ ret = <<>>
    /\ done = FALSE
    /\ locals = [i |-> 0, data |-> <<>>]

\* Lines 102-165: one turn of `while i < len(clean_lines)` that finds an email
AnchorStep ==
    /\ fn = "_parse_vertical_txt"
    /\ ~done
    /\ locals.i < Len(arg)
    /\ LET email_idx == FindEmail(arg, locals.i, Min(locals.i + LookAhead, Len(arg)))
           p_idx == PhonesEnd(arg, email_idx + 1)
       IN  /\ email_idx # -1
           /\ locals' = [i |-> NextCursor(email_idx, p_idx),
                         data |-> Append(locals.data, AnchorRecord(arg, email_idx, p_idx))]
    /\ UNCHANGED <<fn, arg, ret, done, mainVars>>

\* Lines 102-111 and 167: the loop ends at the end of the lines, or breaks when
\* no email is found; the records are returned
EndScan ==
    /\ fn = "_parse_vertical_txt"
    /\ ~done
    /\ \/ locals.i >= Len(arg)
       \/ FindEmail(arg, locals.i, Min(locals.i + LookAhead, Len(arg))) = -1
    /\ ret' = locals.data
    /\ done' = TRUE
    /\ UNCHANGED <<fn, arg, locals, mainVars>>

NextVertical == AnchorStep \/ EndScan

SpecVertical == InitVertical /\ [][NextVertical]_vars /\ WF_vars(NextVertical)

\* C24: the anchor scan ends on every input.  Each turn looks at no more than
\* the 10 lines from the cursor on for the next email line (with "@", without
\* a space) and ends the scan when there is none; otherwise it takes the lines
\* after the email that have at least 4 digits, up to the first that has
\* fewer, adds exactly one record, and leaves the cursor beyond the email line.
C24_AnchorScanEnds ==
    /\ <>done
    /\ [][ LET i == locals.i
               window == { j \in i..(i + 9) : j < Len(arg) }
               emails == { j \in window : IsEmailLine(arg[j + 1]) }
           IN  IF i >= Len(arg) \/ emails = {}
               THEN done' /\ ret' = locals.data /\ locals' = locals
               ELSE LET e == CHOOSE j \in emails : \A k \in emails : j <= k
                        run == { m \in 0..(Len(arg) - e - 1) :
                                   \A k \in 1..m : IsPhoneLine(arg[e + 1 + k]) }
                        taken == CHOOSE m \in run : \A k \in run : k <= m
                    IN  /\ ~done'
                        /\ Len(locals'.data) = Len(locals.data) + 1
                        /\ SubSeq(locals'.data, 1, Len(locals.data)) = locals.data
                        /\ locals'.data[Len(locals'.data)].email = arg[e + 1]
                        /\ locals'.i = e + 1 + taken
                        /\ locals'.i > e
                        /\ locals'.i > i
         ]_vars

\* Nine names, then the email as the tenth line from the cursor and a phone
C24_Witness ==
    /\ fn = "_parse_vertical_txt"
    /\ done
    /\ Len(arg) = 11
    /\ IsEmailLine(arg[10])
    /\ Len(ret) = 1
    /\ ret[1].email = arg[10]
    /\ ret[1].work_phone = arg[11]


----------------------------------------------------------------------------
\* C25 -- Whenever the status PARSED is recorded, every row of the file has a
\* committed narrow-store row and a wide-column record under the same
\* identifier, and the two stores hold the same number of records, one per
\* row.
C25_ParsedMeansStored ==
    Recorded("PARSED") =>
        /\ \A r \in 1..df_len : InBothStores(r)
        /\ pgPending = {}
        /\ Cardinality(pgCommitted) = df_len
        /\ Cardinality(casRows) = df_len

C25_Witness ==
    /\ pc = "finally"
    /\ Recorded("PARSED")
    /\ df_len = 2 * CommitEvery
    /\ Cardinality(pgCommitted) = df_len
    /\ pgCommitted = casRows


----------------------------------------------------------------------------
CalledTwice == fn = "normalize_phone" /\ locals # <<>>

LeadingBlank(s) == s # None /\ s # <<>> /\ IsSpace(s[1])

====
